--------------------------- MODULE StreamingPuller ---------------------------
(***************************************************************************)
(* androidqf_ward's streaming acquisition (acquisition/streaming_buffer.go):*)
(* StreamingBuffer, a memory-limited io.Writer, and one call of            *)
(* StreamingPuller: PullTo{Buffer,Writer}, BackupTo{Buffer,Writer} (the    *)
(* same code with `bu backup' for `cat') and BugreportTo{Buffer,Writer},   *)
(* which run bugreportz on the device, stream the file it reports and      *)
(* remove it in a deferred cleanupDeviceFile.                              *)
(*                                                                         *)
(* cmd.Run with a non-file Stdout copies the adb output in chunks of any   *)
(* size; a failing Write stops the copy and closes the pipe, so adb dies   *)
(* and Run returns an error.  The device link may drop at any moment of    *)
(* the call (the environment); adb then fails and so does the cleanup's    *)
(* `rm', whose error is ignored.  Sizes are in bytes; a "MB" is MB bytes.  *)
(***************************************************************************)
EXTENDS Naturals

CONSTANTS
    MB,         \* bytes in the model's megabyte
    Calls       \* [op, arg, writer, maxMB, len]: the call and what it reads

ToBuffer == {"pull", "backup", "bugreport"}
ToWriter == {"pullW", "backupW", "bugreportW"}
Bugreport == {"bugreport", "bugreportW"}

VARIABLES
    call,       \* the call, its arguments and the length of the device data
    pc,         \* "begin", "generate", "output", "stream", "cleanup", "returned"
    connected,  \* the device link is up
    devFile,    \* the bugreport zip is on the device
    filename,   \* generateBugreport's result: "none", "path"
    streamed,   \* bytes adb has delivered to the destination
    held,       \* bytes in sb.buffer
    size,       \* sb.size
    failed,     \* the destination Write or bugreportz failed
    ret         \* "none", "ok", "err"

vars == <<call, pc, connected, devFile, filename, streamed, held, size,
          failed, ret>>

\* NewStreamingBuffer(int(sp.maxMem / MB)).maxMem
MaxMem == call.maxMB * MB

Init ==
    /\ call \in Calls
    /\ pc = "begin"
    /\ connected = TRUE
    /\ devFile = FALSE
    /\ filename = "none"
    /\ streamed = 0 /\ held = 0 /\ size = 0
    /\ failed = FALSE
    /\ ret = "none"

Fail ==
    /\ ret' = "err"
    /\ pc' = IF filename = "path" THEN "cleanup" ELSE "returned"

\* The argument checks, a fresh StreamingBuffer, then the command.
Begin ==
    /\ pc = "begin"
    /\ IF \/ call.op \notin Bugreport /\ call.arg = ""
          \/ call.op \in ToWriter /\ call.writer = "nil"
       THEN ret' = "err" /\ pc' = "returned"
       ELSE /\ pc' = IF call.op \in Bugreport THEN "generate" ELSE "stream"
            /\ UNCHANGED ret
    /\ UNCHANGED <<call, connected, devFile, filename, streamed, held, size,
                   failed>>

\* generateBugreport: `adb shell bugreportz' writes the zip on the device;
\* its output comes back in GenerateOutput.
Generate ==
    /\ pc = "generate"
    /\ IF ~connected
       THEN ret' = "err" /\ pc' = "returned" /\ UNCHANGED <<devFile, failed>>
       ELSE \/ devFile' = TRUE /\ pc' = "output" /\ UNCHANGED <<ret, failed>>
            \/ failed' = TRUE /\ ret' = "err" /\ pc' = "returned"
               /\ UNCHANGED devFile
    /\ UNCHANGED <<call, connected, filename, streamed, held, size>>

\* cmd.Output() returns "OK:<path>", and the cleanup is deferred; or adb
\* lost the device and the call returns before the defer.
GenerateOutput ==
    /\ pc = "output"
    /\ IF connected
       THEN filename' = "path" /\ pc' = "stream" /\ UNCHANGED ret
       ELSE ret' = "err" /\ pc' = "returned" /\ UNCHANGED filename
    /\ UNCHANGED <<call, connected, devFile, streamed, held, size, failed>>

\* Variant of Write whose limit refuses a write that exactly fills it.
WriteInclusive(n) ==
    IF size + n >= MaxMem
    THEN failed' = TRUE /\ UNCHANGED <<held, size>>
    ELSE held' = held + n /\ size' = size + n /\ UNCHANGED failed

\* StreamingBuffer.Write(p), len(p) = n: refuse past maxMem, else append.
Write(n) ==
    IF size + n > MaxMem
    THEN failed' = TRUE /\ UNCHANGED <<held, size>>
    ELSE held' = held + n /\ size' = size + n /\ UNCHANGED failed

\* One chunk of adb's output into cmd.Stdout.
StreamChunk ==
    /\ pc = "stream" /\ connected /\ ~failed /\ streamed < call.len
    /\ \E n \in 1..(call.len - streamed) :
          IF call.op \in ToBuffer
          THEN Write(n) /\ streamed' = IF failed' THEN streamed
                                                     ELSE streamed + n
          ELSE IF call.writer = "failing"
               THEN failed' = TRUE /\ UNCHANGED <<streamed, held, size>>
               ELSE streamed' = streamed + n /\ UNCHANGED <<held, size, failed>>
    /\ UNCHANGED <<call, pc, connected, devFile, filename, ret>>

\* Variant that cleans up only after a successful stream.
StreamEndNoCleanupOnError ==
    /\ pc = "stream"
    /\ \/ failed \/ ~connected \/ streamed = call.len
    /\ IF ~failed /\ connected /\ streamed = call.len
       THEN /\ ret' = "ok"
            /\ pc' = IF filename = "path" THEN "cleanup" ELSE "returned"
       ELSE ret' = "err" /\ pc' = "returned"
    /\ UNCHANGED <<call, connected, devFile, filename, streamed, held, size,
                   failed>>

\* cmd.Run returns: nil once all output was copied, an error when a Write
\* failed or adb lost the device.
StreamEnd ==
    /\ pc = "stream"
    /\ \/ failed \/ ~connected \/ streamed = call.len
    /\ IF ~failed /\ connected /\ streamed = call.len
       THEN /\ ret' = "ok"
            /\ pc' = IF filename = "path" THEN "cleanup" ELSE "returned"
       ELSE Fail
    /\ UNCHANGED <<call, connected, devFile, filename, streamed, held, size,
                   failed>>

\* The deferred cleanupDeviceFile(filename): `adb shell rm', error ignored.
Cleanup ==
    /\ pc = "cleanup"
    /\ devFile' = (devFile /\ ~connected)
    /\ pc' = "returned"
    /\ UNCHANGED <<call, connected, filename, streamed, held, size, failed,
                   ret>>

\* The caller resets the buffer it got back: StreamingBuffer.Reset().
Reset ==
    /\ pc = "returned" /\ ret = "ok" /\ call.op \in ToBuffer /\ held > 0
    /\ held' = 0 /\ size' = 0
    /\ UNCHANGED <<call, pc, connected, devFile, filename, streamed, failed,
                   ret>>

\* The device link drops (unplugged, adb server restarted, Wi-Fi lost).
Drop ==
    /\ connected /\ pc # "returned"
    /\ connected' = FALSE
    /\ UNCHANGED <<call, pc, devFile, filename, streamed, held, size, failed,
                   ret>>

Returned ==
    /\ pc = "returned"
    /\ UNCHANGED vars

Next ==
    \/ Begin \/ Generate \/ GenerateOutput \/ StreamChunk \/ StreamEnd
    \/ Cleanup \/ Reset \/ Drop \/ Returned

Spec == Init /\ [][Next]_vars

-----------------------------------------------------------------------------

\* Why a call may fail: a bad argument, a failing writer, data beyond the
\* limit, a lost device, or bugreportz reporting FAIL.
Excused ==
    \/ call.op \notin Bugreport /\ call.arg = ""
    \/ call.op \in ToWriter /\ call.writer \in {"nil", "failing"}
    \/ call.op \in ToBuffer /\ call.len > MaxMem
    \/ ~connected
    \/ call.op \in Bugreport /\ failed /\ filename = "none"

(***************************************************************************)
(* A pull, backup or bugreport that returns success delivered all of the   *)
(* device data, within the limit when buffered; one that fails has a       *)
(* cause: data that fits is never refused (Write's limit test at the      *)
(* boundary, the copy loop and the error paths of cmd.Run).               *)
(***************************************************************************)
DeliversOrExplains ==
    pc = "returned" =>
        /\ ret = "ok" =>
               /\ streamed = call.len
               /\ (call.op \in ToBuffer => call.len <= MaxMem)
        /\ ret = "err" => Excused

(***************************************************************************)
(* When a bugreport call returns, the zip bugreportz wrote is gone from    *)
(* the device unless the device link was lost: the deferred               *)
(* cleanupDeviceFile runs on success and on every failure after           *)
(* generateBugreport.                                                      *)
(***************************************************************************)
BugreportRemoved ==
    pc = "returned" /\ call.op \in Bugreport => ~devFile \/ ~connected

=============================================================================
