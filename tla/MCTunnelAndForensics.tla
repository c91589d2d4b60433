------------------------- MODULE MCTunnelAndForensics ----------------------
(***************************************************************************)
(* Three parts that share no state, checked in one run: the tunnel's      *)
(* obfuscation state under concurrent workers (AwgProtocol, two workers,   *)
(* one call each, one reconfiguration to CfgA), `meshcli adbpair'          *)
(* (AdbPair, with two MESH devices and one LAN device), and one call of    *)
(* androidqf_ward's StreamingPuller.  A behaviour is one of the three:     *)
(* AdbPair and the puller have an "off" pc, and the tunnel runs when both  *)
(* are off.  The puller's pc and device link, and the tunnel's pc, are     *)
(* renamed apart from AdbPair's.                                           *)
(***************************************************************************)
EXTENDS Naturals, MCAwgConfigs

CONSTANTS meshA, meshB, lan, None, w1, w2

VARIABLES
    given, extraArgs, qfFlag, host, pc, validateRet, client, savedHost,
    savedPort, target, acq, connected, authorized,
    call, spPc, link, devFile, filename, streamed, held, size, failed, ret,
    cfg, isOn, readers, writer, next, installs, pos, awgPc, lv, calls,
    crashed, sent, draws, junkOut, classified

cliVars == <<given, extraArgs, qfFlag, host, pc, validateRet, client,
             savedHost, savedPort, target, acq>>
adbVars == <<cliVars, connected, authorized>>
pullVars == <<call, spPc, link, devFile, filename, streamed, held, size,
              failed, ret>>
awgVars == <<cfg, isOn, readers, writer, next, installs, pos, awgPc, lv,
             calls, crashed, sent, draws, junkOut, classified>>
vars == <<adbVars, pullVars, awgVars>>

\* Calls of the puller: every operation and argument check, limits of 0, 1
\* and 2 "MB" of 2 bytes, device data of 0 to 5 bytes.
PullCalls ==
    [op : {"pull", "backup", "bugreport", "pullW", "backupW", "bugreportW"},
     arg : {"", "x"}, writer : {"nil", "ok", "failing"}, maxMB : 0..2,
     len : 0..5]

A == INSTANCE AdbPair
        WITH Devices <- {meshA, meshB, lan}, MeshDevices <- {meshA, meshB}

P == INSTANCE StreamingPuller
        WITH MB <- 2, Calls <- PullCalls, pc <- spPc, connected <- link

W == INSTANCE AwgProtocol
        WITH Workers <- {w1, w2}, Configs <- MCConfigsA, InitCfg <- DefaultCfg,
             MaxCalls <- 1, MaxReconfigs <- 1, pc <- awgPc

AdbOff ==
    /\ given = {} /\ extraArgs = FALSE /\ qfFlag = FALSE /\ host = lan
    /\ pc = "off" /\ validateRet = "none" /\ client = FALSE
    /\ savedHost = FALSE /\ savedPort = FALSE /\ target = None
    /\ acq = A!NoAcq /\ connected = {} /\ authorized = {}

PullOff ==
    /\ call = [op |-> "pull", arg |-> "", writer |-> "nil", maxMB |-> 0,
               len |-> 0]
    /\ spPc = "off" /\ link = FALSE /\ devFile = FALSE /\ filename = "none"
    /\ streamed = 0 /\ held = 0 /\ size = 0 /\ failed = FALSE /\ ret = "none"

Init ==
    /\ \/ A!Init /\ PullOff
       \/ P!Init /\ AdbOff
       \/ AdbOff /\ PullOff
    /\ W!Init

TunnelOn == pc = "off" /\ spPc = "off"

AdbStep(X) == pc # "off" /\ X /\ UNCHANGED <<pullVars, awgVars>>
PullStep(X) == spPc # "off" /\ X /\ UNCHANGED <<adbVars, awgVars>>
TunnelStep(X) == TunnelOn /\ X /\ UNCHANGED <<adbVars, pullVars>>

Next == AdbStep(A!Next) \/ PullStep(P!Next) \/ TunnelStep(W!Next)

\* AdbPair's fairness: the CLI goroutine runs; the puller needs none.  The
\* tunnel's: AwgProtocol's Fairness, each worker busy in a call and the
\* device in a reconfiguration get to run.
Spec ==
    /\ Init /\ [][Next]_vars
    /\ WF_cliVars(AdbStep(A!Cli))
    /\ \A w \in {w1, w2} : WF_vars(TunnelStep(W!WorkerStep(w)))
    /\ WF_vars(TunnelStep(W!DeviceStep))

(***************************************************************************)
(* AwgProtocol's type invariant, in the behaviours of the tunnel.          *)
(***************************************************************************)
TunnelTypeOK == TunnelOn => W!TypeOK

(***************************************************************************)
(* A reconfiguration that has asked for Mux.Lock installs its Cfg and sets *)
(* IsOn, unless the process panicked; every junk call releases its read    *)
(* lock on every return (AwgProtocol's ReconfigurationCompletes).          *)
(***************************************************************************)
ReconfigurationCompletes == W!ReconfigurationCompletes

(***************************************************************************)
(* qf's SetSerial/GetState loop ends once the chosen device stays          *)
(* connected and authorised (AdbPair's QfTerminatesOnceAuthorized).        *)
(***************************************************************************)
QfTerminatesOnceAuthorized == pc # "off" => A!QfTerminatesOnceAuthorized

(***************************************************************************)
(* A successful pull, backup or bugreport delivered all the device data,   *)
(* and a failed one has a cause (StreamingPuller's DeliversOrExplains).    *)
(***************************************************************************)
DeliversOrExplains == P!DeliversOrExplains

(***************************************************************************)
(* The bugreport zip is removed from the device when the call returns,     *)
(* unless the link was lost (StreamingPuller's BugreportRemoved).          *)
(***************************************************************************)
BugreportRemoved == P!BugreportRemoved

=============================================================================
