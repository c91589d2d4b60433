---------------------------- MODULE AwgProtocol ----------------------------
(***************************************************************************)
(* The obfuscation state of one tunnel, device/awg/awg.go Protocol, used   *)
(* by concurrent packet workers while the device reconfigures it.          *)
(*                                                                         *)
(* Workers call, each in its own goroutine:                                 *)
(*   - Create{Init,Response,CookieReply,Transport}HeaderJunk: RLock Mux,    *)
(*     read the junk size, createHeaderJunk, RUnlock (deferred);            *)
(*   - GetMsgType(t): no lock; reads Cfg.MagicHeaders.Values and its        *)
(*     randomGenerator, then RandomSizeInRange draws from the ChaCha8       *)
(*     keystream of that generator (PRNG.Get, unsynchronised);              *)
(*   - GetMagicHeaderMinFor(v): no lock; classifies a received value.       *)
(* The device side (not in this repository; modelled from the spec) takes  *)
(* the write side of Mux to install a new Cfg whose MagicHeaders come from *)
(* NewMagicHeaders (with a fresh PRNG), and flips the atomic IsOn.          *)
(*                                                                         *)
(* Every unlocked read of Cfg is a step of its own: it races with the       *)
(* writer's assignment, and the Go memory model lets such a racy read see  *)
(* the value before or after the write.  The ChaCha8 state read-modify-    *)
(* write in PRNG.Get is two steps for the same reason.  A panic ends the   *)
(* process.                                                                 *)
(***************************************************************************)
EXTENDS AwgMagicHeader, FiniteSets

CONSTANTS
    Workers,        \* packet-processing goroutines
    Configs,        \* Cfg values the device may install
    InitCfg,        \* Cfg of the Protocol before the first reconfiguration
    MaxCalls,       \* bound: calls per worker
    MaxReconfigs    \* bound: Cfg installations by the device

JunkKinds == {"init", "response", "cookieReply", "transport"}

\* The generator id of the PRNG a Cfg was built with; 0 is InitCfg's.
Gens == 0..MaxReconfigs

ASSUME
    /\ Workers # {}
    /\ MaxCalls \in Nat /\ MaxReconfigs \in Nat
    /\ \A c \in Configs \cup {InitCfg} :
           c.IsSet \in BOOLEAN /\ c.junk \in [JunkKinds -> Nat]
    /\ \A c \in Configs : NewMagicHeadersOk(c.values)

VARIABLES
    cfg,        \* Protocol.Cfg: junk sizes, MagicHeaders.Values, its PRNG
    isOn,       \* Protocol.IsOn
    readers,    \* workers holding Mux.RLock
    writer,     \* the device: "idle", Lock "pending", "held", "setIsOn"
    next,       \* the Cfg the device is installing
    installs,   \* Cfg installations so far
    pos,        \* the ChaCha8 keystream position of each PRNG
    pc,         \* where each worker is
    lv,         \* each worker's local variables
    calls,      \* calls each worker has made
    crashed,    \* the panic that ended the process, or "none"
    sent,       \* history: messages stamped by GetMsgType
    draws,      \* history: keystream positions handed out
    junkOut,    \* history: junk buffers returned
    classified  \* history: results of GetMagicHeaderMinFor

vars == <<cfg, isOn, readers, writer, next, installs, pos, pc, lv, calls,
          crashed, sent, draws, junkOut, classified>>

NoLocals == [kind |-> "init", t |-> 1, min |-> 0, max |-> 0, gen |-> 0,
             p |-> 0]

Idle(w) == pc[w] = "idle" /\ calls[w] < MaxCalls /\ crashed = "none"

Goto(w, to) == pc' = [pc EXCEPT ![w] = to]

\* A call returns: the worker is idle again and has used one call.
Return(w) ==
    /\ pc' = [pc EXCEPT ![w] = "idle"]
    /\ lv' = [lv EXCEPT ![w] = NoLocals]

Panic(why) ==
    /\ crashed' = why
    /\ UNCHANGED <<pc, lv>>

Init ==
    /\ cfg = InitCfg
    /\ isOn = FALSE
    /\ readers = {}
    /\ writer = "idle"
    /\ next = InitCfg
    /\ installs = 0
    /\ pos = [g \in Gens |-> 0]
    /\ pc = [w \in Workers |-> "idle"]
    /\ lv = [w \in Workers |-> NoLocals]
    /\ calls = [w \in Workers |-> 0]
    /\ crashed = "none"
    /\ sent = {}
    /\ draws = {}
    /\ junkOut = {}
    /\ classified = {}

-----------------------------------------------------------------------------
(* Junk creation, under the read side of Mux.                              *)

\* protocol.Mux.RLock(): blocks while the device holds or waits for Lock.
JunkRLock(w, kind) ==
    /\ Idle(w)
    /\ writer \notin {"pending", "held"}
    /\ readers' = readers \cup {w}
    /\ Goto(w, "junk")
    /\ lv' = [lv EXCEPT ![w].kind = kind]
    /\ calls' = [calls EXCEPT ![w] = @ + 1]
    /\ UNCHANGED <<cfg, isOn, writer, next, installs, pos, crashed, sent,
                   draws, junkOut, classified>>

CreateInitHeaderJunk(w) == JunkRLock(w, "init")
CreateResponseHeaderJunk(w) == JunkRLock(w, "response")
CreateCookieReplyHeaderJunk(w) == JunkRLock(w, "cookieReply")
CreateTransportHeaderJunk(w) == JunkRLock(w, "transport")

\* As CreateHeaderJunk, with RUnlock on the success path only instead of
\* deferred: the size-0 and AppendJunk-error returns keep the read lock.
CreateHeaderJunkUnlockOnSuccess(w) ==
    LET junkSize == cfg.junk[lv[w].kind]
    IN
    /\ pc[w] = "junk"
    /\ crashed = "none"
    /\ \E appendOk \in BOOLEAN :
          /\ junkOut' = junkOut \cup
                {[kind |-> lv[w].kind, isOn |-> isOn,
                  len |-> IF junkSize # 0 /\ appendOk THEN junkSize ELSE 0]}
          /\ readers' = IF junkSize # 0 /\ appendOk THEN readers \ {w}
                                                   ELSE readers
    /\ Return(w)
    /\ UNCHANGED <<cfg, isOn, writer, next, installs, pos, calls, crashed,
                   sent, draws, classified>>

\* createHeaderJunk(junkSize, extraSize) with the size read under the lock,
\* then the deferred RUnlock.  No junk for size 0; otherwise
\* JunkCreator.AppendJunk writes junkSize bytes or fails.
CreateHeaderJunk(w) ==
    LET junkSize == cfg.junk[lv[w].kind]
    IN
    /\ pc[w] = "junk"
    /\ crashed = "none"
    /\ \E appendOk \in BOOLEAN :
          junkOut' = junkOut \cup
              {[kind |-> lv[w].kind, isOn |-> isOn,
                len |-> IF junkSize # 0 /\ appendOk THEN junkSize ELSE 0]}
    /\ readers' = readers \ {w}
    /\ Return(w)
    /\ UNCHANGED <<cfg, isOn, writer, next, installs, pos, calls, crashed,
                   sent, draws, classified>>

-----------------------------------------------------------------------------
(* GetMsgType(t) = Cfg.MagicHeaders.Get(t), all without the lock.          *)

\* The nil checks of GetMsgType and Get, the read of the randomGenerator
\* interface, and of Values[t-1].Min.
GetMsgType(w, t) ==
    /\ Idle(w)
    /\ calls' = [calls EXCEPT ![w] = @ + 1]
    /\ IF cfg.values = Nil
       THEN Panic("nilValues")
       ELSE /\ Goto(w, "readMax")
            /\ lv' = [lv EXCEPT ![w].t = t, ![w].gen = cfg.gen,
                                ![w].min = cfg.values[t].Min]
            /\ UNCHANGED crashed
    /\ UNCHANGED <<cfg, isOn, readers, writer, next, installs, pos, sent,
                   draws, junkOut, classified>>

\* Values[t-1].Max, read again through mh.Values.
ReadMax(w) ==
    /\ pc[w] = "readMax"
    /\ crashed = "none"
    /\ Goto(w, "draw")
    /\ lv' = [lv EXCEPT ![w].max = cfg.values[lv[w].t].Max]
    /\ UNCHANGED <<cfg, isOn, readers, writer, next, installs, pos, calls,
                   crashed, sent, draws, junkOut, classified>>

\* RandomSizeInRange(min, max): panics if min > max, returns min if equal,
\* else PRNG.Get() reads the ChaCha8 position.
RandomSizeInRangeStep(w) ==
    LET l == lv[w] IN
    /\ pc[w] = "draw"
    /\ crashed = "none"
    /\ CASE l.min > l.max ->
              /\ Panic("minGtMax")
              /\ UNCHANGED sent
         [] l.min = l.max ->
              /\ sent' = sent \cup {[type |-> l.t, value |-> l.min]}
              /\ Return(w)
              /\ UNCHANGED crashed
         [] OTHER ->
              /\ Goto(w, "advance")
              /\ lv' = [lv EXCEPT ![w].p = pos[l.gen]]
              /\ UNCHANGED <<crashed, sent>>
    /\ UNCHANGED <<cfg, isOn, readers, writer, next, installs, pos, calls,
                   draws, junkOut, classified>>

\* ChaCha8.Uint64 stores the advanced position and returns the keystream
\* word at the one it read; the draw is word % (max-min) + min.  Only the
\* word's residue modulo max - min matters, and every residue occurs.
PRNGGet(w) ==
    LET l == lv[w] IN
    /\ pc[w] = "advance"
    /\ crashed = "none"
    /\ pos' = [pos EXCEPT ![l.gen] = l.p + 1]
    /\ draws' = draws \cup {[gen |-> l.gen, p |-> l.p, by |-> <<w, calls[w]>>]}
    /\ \E word \in 0..(l.max - l.min - 1) :
          sent' = sent \cup {[type |-> l.t,
                              value |-> RandomSizeInRange(l.min, l.max, word)]}
    /\ Return(w)
    /\ UNCHANGED <<cfg, isOn, readers, writer, next, installs, calls, crashed,
                   junkOut, classified>>

-----------------------------------------------------------------------------
(* Receive side: GetMagicHeaderMinFor on a value a peer sent, without the  *)
(* lock; `range` reads the Values slice once.                              *)

GetMagicHeaderMinForStep(w, m) ==
    /\ Idle(w)
    /\ calls' = [calls EXCEPT ![w] = @ + 1]
    /\ classified' = classified \cup
          {[msg |-> m, values |-> cfg.values,
            result |-> GetMagicHeaderMinFor(cfg.values, m.value)]}
    /\ UNCHANGED <<cfg, isOn, readers, writer, next, installs, pos, pc, lv,
                   crashed, sent, draws, junkOut>>

-----------------------------------------------------------------------------
(* The device (modelled from the spec): a reconfiguration builds the new   *)
(* Cfg with NewMagicHeaders, which also makes a new PRNG, installs it      *)
(* under Mux.Lock, and after Unlock sets the atomic IsOn to Cfg.IsSet.     *)

ReconfigureLock(c) ==
    /\ crashed = "none"
    /\ writer = "idle"
    /\ installs < MaxReconfigs
    /\ writer' = "pending"
    /\ next' = [c EXCEPT !.gen = installs + 1]
    /\ UNCHANGED <<cfg, isOn, readers, installs, pos, pc, lv, calls, crashed,
                   sent, draws, junkOut, classified>>

\* Lock() returns once the readers are gone; the Cfg is assigned.
ReconfigureAssign ==
    /\ crashed = "none"
    /\ writer = "pending"
    /\ readers = {}
    /\ writer' = "held"
    /\ cfg' = next
    /\ installs' = installs + 1
    /\ UNCHANGED <<isOn, readers, next, pos, pc, lv, calls, crashed, sent,
                   draws, junkOut, classified>>

ReconfigureUnlock ==
    /\ crashed = "none"
    /\ writer = "held"
    /\ writer' = "setIsOn"
    /\ UNCHANGED <<cfg, isOn, readers, next, installs, pos, pc, lv, calls,
                   crashed, sent, draws, junkOut, classified>>

\* After Unlock the device sets the atomic IsOn from the new Cfg.IsSet.
SetIsOn ==
    /\ crashed = "none"
    /\ writer = "setIsOn"
    /\ isOn' = cfg.IsSet
    /\ writer' = "idle"
    /\ UNCHANGED <<cfg, readers, next, installs, pos, pc, lv, calls,
                   crashed, sent, draws, junkOut, classified>>

\* A panic is fatal to the process: nothing runs after it.
Crashed ==
    /\ crashed # "none"
    /\ UNCHANGED vars

\* The workers' bounds are reached: every worker has made its calls.  A
\* reconfiguration still in progress is left to ReconfigurationCompletes.
Done ==
    /\ \A w \in Workers : pc[w] = "idle" /\ calls[w] = MaxCalls
    /\ UNCHANGED vars

Next ==
    \/ \E w \in Workers :
          \/ CreateInitHeaderJunk(w)
          \/ CreateResponseHeaderJunk(w)
          \/ CreateCookieReplyHeaderJunk(w)
          \/ CreateTransportHeaderJunk(w)
          \/ CreateHeaderJunk(w)
          \/ \E t \in MsgTypes : GetMsgType(w, t)
          \/ ReadMax(w)
          \/ RandomSizeInRangeStep(w)
          \/ PRNGGet(w)
          \/ \E m \in sent : GetMagicHeaderMinForStep(w, m)
    \/ \E c \in Configs : ReconfigureLock(c)
    \/ ReconfigureAssign
    \/ ReconfigureUnlock
    \/ SetIsOn
    \/ Crashed
    \/ Done

Spec == Init /\ [][Next]_vars

\* A worker in the middle of a call is a runnable goroutine and the Go
\* scheduler runs it; the device finishes a reconfiguration it started.
\* Nothing forces a worker to make a call or the device to reconfigure.
WorkerStep(w) ==
    CreateHeaderJunk(w) \/ ReadMax(w) \/ RandomSizeInRangeStep(w) \/ PRNGGet(w)

DeviceStep == ReconfigureAssign \/ ReconfigureUnlock \/ SetIsOn

Fairness == (\A w \in Workers : WF_vars(WorkerStep(w))) /\ WF_vars(DeviceStep)

FairSpec == Spec /\ Fairness

-----------------------------------------------------------------------------

Headers == [MsgTypes -> AllMagicHeaders]

Msgs == [type : MsgTypes, value : U32]

TypeOK ==
    /\ cfg \in [IsSet : BOOLEAN, junk : [JunkKinds -> Nat],
                values : Headers \cup {Nil}, gen : Gens]
    /\ isOn \in BOOLEAN
    /\ readers \subseteq Workers
    /\ writer \in {"idle", "pending", "held", "setIsOn"}
    /\ installs \in 0..MaxReconfigs
    /\ pos \in [Gens -> Nat]
    /\ pc \in [Workers -> {"idle", "junk", "readMax", "draw", "advance"}]
    /\ calls \in [Workers -> 0..MaxCalls]
    /\ crashed \in {"none", "nilValues", "minGtMax"}
    /\ sent \subseteq Msgs
    /\ \A r \in classified : r.result \in U32 \cup {NoMatch}

(***************************************************************************)
(* A reconfiguration never waits forever: once the device has asked for    *)
(* Mux.Lock, the new Cfg is installed and IsOn set (the writer is idle     *)
(* again), unless a panic ended the process.  It rests on every junk call  *)
(* giving back its read lock on every return path (the deferred RUnlock,   *)
(* including createHeaderJunk's size-0 and AppendJunk-error returns), and  *)
(* on Lock holding off new readers while it waits.                         *)
(***************************************************************************)
ReconfigurationCompletes ==
    writer = "pending" ~> (writer = "idle" \/ crashed # "none")

(***************************************************************************)
(* The spec: every call either returns or fails with an error; none of     *)
(* them brings the process down.  RandomSizeInRange panics on min > max.   *)
(***************************************************************************)
DrawNeverPanics ==
    crashed # "minGtMax"

(***************************************************************************)
(* The spec: the PRNG is safe for concurrent use, so no keystream word is  *)
(* handed to two draws.                                                     *)
(***************************************************************************)
KeystreamNeverReused ==
    \A d1, d2 \in draws :
        d1.by # d2.by => <<d1.gen, d1.p>> # <<d2.gen, d2.p>>

(***************************************************************************)
(* The spec: with obfuscation disabled (enabled = false, the atomic IsOn)  *)
(* the junk operations return an empty result whatever junk size is       *)
(* configured.  createHeaderJunk decides on the size alone.                *)
(***************************************************************************)
NoJunkWhenOff ==
    \A j \in junkOut : ~j.isOn => j.len = 0

(***************************************************************************)
(* The spec: when the magic-header set is not configured, GetMsgType       *)
(* returns the default message type unchanged rather than failing, as      *)
(* GetMagicHeaderMinFor does for a nil Values.                             *)
(***************************************************************************)
UnconfiguredKeepsDefault ==
    crashed # "nilValues"

=============================================================================
