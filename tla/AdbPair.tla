------------------------------ MODULE AdbPair ------------------------------
(***************************************************************************)
(* `meshcli adbpair' (cmd/meshcli/cli/adbpair.go): pair with an Android     *)
(* device over ADB, connect to it, validate the session and, with --qf,    *)
(* run the AndroidQF/WARD acquisition on it.                               *)
(*                                                                         *)
(* The CLI is one goroutine; every external call (adb pair, adb connect,   *)
(* saveHost, adb.New, Devices, SetSerial, GetState, the acquisition steps) *)
(* is one step whose success or failure is chosen nondeterministically,    *)
(* or decided by the device state where the code's outcome depends on it. *)
(* The adb server and the devices are the environment: a device may be    *)
(* left connected from an earlier session, may drop off the network, and  *)
(* the user may authorise it on the phone at any time.                    *)
(***************************************************************************)
EXTENDS FiniteSets

CONSTANTS
    Devices,      \* ADB device addresses (serials)
    MeshDevices,  \* those on the MESH network: strings.HasPrefix(d, "100.")
    None          \* no device chosen

ASSUME MeshDevices \subseteq Devices /\ None \notin Devices

VARIABLES
    \* adbpairArgs and the positional arguments
    given,       \* which of --host --hostport --pairport --code are non-empty
    extraArgs,   \* len(args) > 0
    qfFlag,      \* --qf
    host,        \* the device --host names
    \* the CLI
    pc,          \* where runadbpair is
    validateRet, \* where validateConnect returns to
    client,      \* adb.Client is non-nil
    savedHost,   \* saveHost succeeded
    savedPort,   \* saveHostport succeeded
    target,      \* the device qf chose, or None
    acq,         \* what the acquisition has done
    \* the adb server and the phones
    connected,   \* devices adb.Client.Devices() lists
    authorized   \* devices whose user accepted the debugging prompt

cli == <<given, extraArgs, qfFlag, host, pc, validateRet, client,
         savedHost, savedPort, target, acq>>
env == <<connected, authorized>>
vars == <<cli, env>>

Flags == {"host", "hostport", "pairport", "code"}

Terminal == {"done", "failed", "fatal"}

NoAcq == [started |-> FALSE, collected |-> FALSE, hashed |-> FALSE,
          encrypted |-> FALSE, warned |-> FALSE, completed |-> FALSE]

Init ==
    /\ given \in SUBSET Flags
    /\ extraArgs \in BOOLEAN
    /\ qfFlag \in BOOLEAN
    /\ host \in Devices
    /\ pc = "start"
    /\ validateRet = "none"
    /\ client = FALSE
    /\ savedHost = FALSE
    /\ savedPort = FALSE
    /\ target = None
    /\ acq = NoAcq
    /\ connected \in SUBSET Devices
    /\ authorized \in SUBSET Devices

\* validateAdbArgs: every one of the four flags must be non-empty (the
\* all-empty case only changes the message).
ValidateAdbArgsOk == given = Flags

Fail == pc' = "failed"

\* runadbpair up to the call of adbPair.
RunAdbPair ==
    /\ pc = "start"
    /\ pc' = IF ~extraArgs /\ ValidateAdbArgsOk THEN "pair" ELSE "failed"
    /\ UNCHANGED <<given, extraArgs, qfFlag, host, validateRet, client,
                   savedHost, savedPort, target, acq, env>>

\* adbPair: `adb pair host:pairport code', then saveHost.
AdbPair ==
    /\ pc = "pair"
    /\ \E pairOk, saveOk \in BOOLEAN :
         \/ ~pairOk /\ Fail /\ UNCHANGED savedHost
         \/ pairOk /\ ~saveOk /\ Fail /\ UNCHANGED savedHost
         \/ pairOk /\ saveOk /\ savedHost' = TRUE /\ pc' = "connect"
    /\ UNCHANGED <<given, extraArgs, qfFlag, host, validateRet, client,
                   savedPort, target, acq, env>>

\* adbConnect: `adb connect host:hostport', saveHostport, adb.New, then
\* validateConnect.
AdbConnect ==
    /\ pc = "connect"
    /\ \E connectOk, saveOk, newOk \in BOOLEAN :
         IF ~connectOk
         THEN Fail /\ UNCHANGED <<connected, savedPort, client, validateRet>>
         ELSE /\ connected' = connected \cup {host}
              /\ IF ~saveOk
                 THEN Fail /\ UNCHANGED <<savedPort, client, validateRet>>
                 ELSE /\ savedPort' = TRUE
                      /\ IF ~newOk
                         THEN Fail /\ UNCHANGED <<client, validateRet>>
                         ELSE /\ client' = TRUE
                              /\ pc' = "validate"
                              /\ validateRet' = "connect"
    /\ UNCHANGED <<given, extraArgs, qfFlag, host, savedHost, target, acq,
                   authorized>>

\* validateConnect: an error only when adb.Client is nil or Devices()
\* fails; with no device, or one that is not on MESH, it prints a message
\* and returns nil.  Called from adbConnect and again from runadbpair.
ValidateConnect ==
    /\ pc = "validate"
    /\ \E devicesOk \in BOOLEAN :
         pc' = CASE ~client \/ ~devicesOk   -> "failed"
                 [] validateRet = "connect" -> "validate2"
                 [] OTHER                   -> "adbNew"
    /\ validateRet' = "none"
    /\ UNCHANGED <<given, extraArgs, qfFlag, host, client, savedHost,
                   savedPort, target, acq, env>>

\* runadbpair: adbConnect returned, validateConnect again.
RunValidate ==
    /\ pc = "validate2"
    /\ pc' = "validate"
    /\ validateRet' = "run"
    /\ UNCHANGED <<given, extraArgs, qfFlag, host, client, savedHost,
                   savedPort, target, acq, env>>

\* runadbpair: adb.New again, then qf when --qf is given.
RunAdbNew ==
    /\ pc = "adbNew"
    /\ \E newOk \in BOOLEAN :
         pc' = CASE ~newOk -> "failed"
                 [] qfFlag -> "qf"
                 [] OTHER  -> "done"
    /\ UNCHANGED <<given, extraArgs, qfFlag, host, validateRet, client,
                   savedHost, savedPort, target, acq, env>>

\* qf: Devices(), then the first device of the list with the MESH prefix;
\* adb lists devices in its own order, so any of them may come first.  No
\* such device: qf returns nil.
QfDevices ==
    /\ pc = "qf"
    /\ \/ /\ pc' = "failed"  \* Devices() failed
          /\ UNCHANGED target
       \/ /\ connected \cap MeshDevices = {}
          /\ pc' = "done"
          /\ UNCHANGED target
       \/ \E d \in connected \cap MeshDevices :
             /\ target' = d
             /\ pc' = "retry"
    /\ UNCHANGED <<given, extraArgs, qfFlag, host, validateRet, client,
                   savedHost, savedPort, acq, env>>

\* Variant that breaks out of the loop on GetState's error instead.
QfRetryBreakOnError ==
    /\ pc = "retry"
    /\ pc' = IF target \in connected /\ target \notin authorized
             THEN "acquire" ELSE "retry"
    /\ UNCHANGED <<given, extraArgs, qfFlag, host, validateRet, client,
                   savedHost, savedPort, target, acq, env>>

\* One turn of the retry loop: SetSerial(d) needs d connected, GetState()
\* needs it authorised; otherwise sleep 5 s and try again, forever.
QfRetry ==
    /\ pc = "retry"
    /\ pc' = IF target \in connected /\ target \in authorized
             THEN "acquire" ELSE "retry"
    /\ UNCHANGED <<given, extraArgs, qfFlag, host, validateRet, client,
                   savedHost, savedPort, target, acq, env>>

\* acquisition.New: log.FatalExc on error ends the process.
AcquisitionNew ==
    /\ pc = "acquire"
    /\ \E ok \in BOOLEAN :
         IF ok THEN /\ pc' = "modules"
                    /\ acq' = [acq EXCEPT !.started = TRUE]
               ELSE /\ pc' = "fatal"
                    /\ UNCHANGED acq
    /\ UNCHANGED <<given, extraArgs, qfFlag, host, validateRet, client,
                   savedHost, savedPort, target, env>>

\* Every module: InitStorage and Run; their errors are logged and skipped.
RunModules ==
    /\ pc = "modules"
    /\ pc' = "hash"
    /\ acq' = [acq EXCEPT !.collected = TRUE]
    /\ UNCHANGED <<given, extraArgs, qfFlag, host, validateRet, client,
                   savedHost, savedPort, target, env>>

\* HashFiles; on error qf returns it, before StoreInfo and StoreSecurely.
HashFiles ==
    /\ pc = "hash"
    /\ \E ok \in BOOLEAN :
         IF ok THEN /\ pc' = "secure"
                    /\ acq' = [acq EXCEPT !.hashed = TRUE]
               ELSE /\ pc' = "failed"
                    /\ UNCHANGED acq
    /\ UNCHANGED <<given, extraArgs, qfFlag, host, validateRet, client,
                   savedHost, savedPort, target, env>>

\* StoreInfo, StoreSecurely (a failure is logged with a warning that the
\* data is unencrypted), Complete, return nil.
StoreSecurely ==
    /\ pc = "secure"
    /\ \E ok \in BOOLEAN :
         acq' = [acq EXCEPT !.encrypted = ok, !.warned = ~ok,
                            !.completed = TRUE]
    /\ pc' = "done"
    /\ UNCHANGED <<given, extraArgs, qfFlag, host, validateRet, client,
                   savedHost, savedPort, target, env>>

(* The environment *)

\* The user accepts the USB-debugging prompt on device d.
Authorize(d) ==
    /\ d \notin authorized
    /\ authorized' = authorized \cup {d}
    /\ UNCHANGED <<cli, connected>>

\* Device d drops off the network and out of adb's list.
Disconnect(d) ==
    /\ d \in connected
    /\ connected' = connected \ {d}
    /\ UNCHANGED <<cli, authorized>>

\* The process has exited.
Exited ==
    /\ pc \in Terminal
    /\ UNCHANGED vars

Cli ==
    \/ RunAdbPair \/ AdbPair \/ AdbConnect \/ ValidateConnect \/ RunValidate
    \/ RunAdbNew \/ QfDevices \/ QfRetry \/ AcquisitionNew \/ RunModules
    \/ HashFiles \/ StoreSecurely

Next ==
    \/ Cli
    \/ \E d \in Devices : Authorize(d) \/ Disconnect(d)
    \/ Exited

\* The CLI is a single goroutine that never waits on anything but a sleep:
\* while it can step it eventually does.  The user and the network get no
\* fairness.
Spec == Init /\ [][Next]_vars /\ WF_cli(Cli)

-----------------------------------------------------------------------------

(***************************************************************************)
(* The retry loop of qf ends: once the chosen device stays connected and   *)
(* authorised, SetSerial and GetState succeed and the CLI goes on to exit. *)
(***************************************************************************)
QfTerminatesOnceAuthorized ==
    <>[](target \in connected /\ target \in authorized) => <>(pc \in Terminal)

(***************************************************************************)
(* --qf acquires the device that was just paired and connected (--host),   *)
(* not any other device the adb server happens to list.                    *)
(***************************************************************************)
AcquiresPairedDevice == target # None => target = host

(***************************************************************************)
(* qf never leaves an acquisition on disk unencrypted without telling the  *)
(* user: StoreSecurely's failure is logged with "WARNING: ... The data is  *)
(* unencrypted!", and every other way qf ends after the modules collected  *)
(* data must leave it encrypted or warned about likewise.                  *)
(***************************************************************************)
UnencryptedDataWarned ==
    pc \in Terminal /\ acq.collected => acq.encrypted \/ acq.warned

=============================================================================
