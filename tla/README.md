# TLA+ models of MESH

This directory holds TLA+ models of parts of the MESH repository. The models are checked with TLC. They cover:

- the AmneziaWG obfuscation layer (`device/awg`) in the forked `amneziawg-go`, where packet workers and a reconfiguring device share mutable state;
- the Android notification watcher (`libtailscale/notifier.go`);
- the `meshcli adbpair` pairing and quick-forensics command;
- the Internet checksum and the GSO splitter of the `tun` package;
- the hardware attestation key hook;
- the two `go generate` tools that build the analyst client.

The remaining components are listed at the end, with the plan for each.

## The system and its parts

| Part | Source | State | Operations |
|---|---|---|---|
| Randomness source | `device/awg/prng.go` | ChaCha8 keystream position | `NewPRNG`, `Get`, `RandomSizeInRange`, `ReadSize` (no caller) |
| Magic header range / set | `device/awg/magic_header.go` | `Values [4]MagicHeader`, the PRNG | `ParseMagicHeader`, `NewMagicHeader(s)`, `NewMagicHeadersUnchecked`, `Get` |
| Obfuscation protocol | `device/awg/awg.go` | `Cfg` (junk sizes, magic headers), `IsOn`, `Mux` | `Create{Init,Response,CookieReply,Transport}HeaderJunk`, `GetMsgType`, `GetMagicHeaderMinFor` |
| Checksum engine | `tun/checksum.go` | none (pure; one call at a time) | `Checksum`, `PseudoHeaderChecksum` |
| Segmentation offload | `amneziawg-go/tun/gso.go` | none (pure) | `GSOSplit` |
| Streaming acquisition | `androidqf_ward/acquisition/streaming_buffer.go` | buffer size and limit, a device-side file | `Write`, `Reset`, `PullToBuffer`, `BugreportToBuffer` |
| Notification watcher | `mesh-android/libtailscale/notifier.go` | `app.backend`, the watch context | `WatchNotifications`, `Stop` |
| ADB pairing / collection CLI | `meshcli/cli/adbpair.go` | the adb connection, the device state | pair, connect, `validateConnect`, `qf` |
| Attestation key hook | `ipn/ipnlocal/hwattest.go` | `Persist.AttestationKey` | `generateAttestationKeyIfEmpty` |
| Analyst build generator | `analyst/cmd/generator/main.go` | the `build/` tree | `main` |

Here is how the protocol parts interact:

- The device reconfigures a peer by validating the new magic headers with `NewMagicHeaders`. It then takes `Mux.Lock`, assigns `Cfg`, unlocks, and sets `IsOn`. That writer code is outside `src/`, so its model is written from the spec.
- Packet workers run concurrently:
  - They create junk under `Mux.RLock`.
  - They stamp magic values with `GetMsgType` and classify received values with `GetMagicHeaderMinFor`. Both run *without* the lock.
- `GetMsgType` draws with `MagicHeaders.Get`, which calls `PRNG.RandomSizeInRange`. That calls `PRNG.Get`, which uses the unsynchronised ChaCha8 state.

## Modules

- **`AwgMagicHeader`** holds pure operators for `MagicHeader`, `NewMagicHeader`, `NewMagicHeaders` (sort by Min, compare neighbours), `RandomSizeInRange`, `MagicHeaders.Get` and `GetMagicHeaderMinFor`.
  - A uint32 is an integer in `0..MaxU32`. `MaxU32` is a scaled stand-in for 2^32-1.
  - No arithmetic in these operators can wrap, so scaling loses nothing.
  - A ChaCha8 word enters the draw only through its residue modulo the range width, so it ranges over residues.
- **`MagicHeaderConfig`** models one peer's configuration, sequentially.
  - It parses H1..H4, with each text abstracted to its shape (number, `a-b`, empty part, non-uint32 part), then runs `NewMagicHeaders` or `NewMagicHeadersUnchecked`.
  - After that, one sender `Get` and one receiver classification follow, repeatedly.
  - Each action is one call of the code: `ParseKey`, `NewMagicHeaders`, `NewMagicHeadersUnchecked`, `Get`, `Receive`.
  - Both constructors call `NewPRNG`, which panics when the system entropy source fails. The model chooses, with `\E seeded \in BOOLEAN`, whether seeding succeeds; a failure ends in phase `entropyPanic` (`EntropyPanic`). In `NewMagicHeaders` the panic can only come after validation has passed, and `ValidationMatchesDisjointness` checks exactly that.
- **`AwgProtocol`** models the concurrent `Protocol`. Each worker has a program counter (`pc`) and locals (`lv`), and the code's racy reads are separate steps:
  - `GetMsgType` reads `Values[t-1].Min`.
  - `ReadMax` reads `.Max`.
  - `RandomSizeInRangeStep` checks `min > max` (which panics) and `min == max`.
  - `PRNGGet` is the ChaCha8 read-modify-write. `pos[gen]` is the keystream position of the PRNG installed by configuration generation `gen`.
  - `JunkRLock` and `CreateHeaderJunk` are the RLock'd junk path. `AppendJunk` may fail, and the model chooses that nondeterministically.
  - The device writer is `ReconfigureLock` (pending), `ReconfigureAssign` (once the readers drain), `ReconfigureUnlock` and `SetIsOn`. These follow Go `RWMutex` semantics: a pending writer blocks new readers.
  - A panic sets `crashed` and ends the behaviour.
  - History variables record the evidence the properties need: `sent` (each stamped message), `draws` (keystream positions used), `junkOut` and `classified`.
  - `Fairness`: a worker in the middle of a call (`WorkerStep`) and a reconfiguration in progress (`DeviceStep`) get to run. Nothing forces a worker to start a call or the device to reconfigure.
- `MagicHeaderConfig` is instantiated in `MCPrimitives`. The configurations `AwgProtocol` is checked with are in **`MCAwgConfigs`**: `MaxU32 = 9` and two configurations, A and B. They are chosen so that each type's range under one overlaps the ranges of other types under the other, which makes a torn read visible. **`MCAwgProtocol`** instantiates `AwgProtocol` with two model-value workers under symmetry for the violation runs; `MCTunnelAndForensics` instantiates it for the pass run.

- **`Notifier`** models `WatchNotifications` and `Stop`.
  - The environment is the app's start-up (`AppReady`, `SetBackend`), the backend's traffic (`Publish`) and the caller's `Stop`.
  - `ReadyWait` is `ready.Wait` plus the unsynchronised read of `app.backend`. `PollBackend` is one 50 ms sleep and re-read, or the end of the loop. The 5 s deadline may have passed after any sleep, and it has surely passed after `MaxPolls` sleeps.
  - `NewManager` starts the goroutine on the manager's context. `Deliver` is the callback for one notification, with `ok` standing for the outcomes of `json.Marshal` and `OnNotify`. `GoroutineExit` is the goroutine returning once its context is done.
- **`AdbPair`** models `runadbpair` and the functions it calls. There is one action per call:
  - The external commands and library calls each succeed or fail nondeterministically: `adb pair`, `adb connect`, `saveHost`, `adb.New`, `Devices`, `acquisition.New`, `HashFiles`, `StoreSecurely`.
  - The flags are which of the four strings are non-empty.
  - `validateConnect` is one action with a return point (`validateRet`), because it is called from two places.
  - `QfDevices` picks whichever 100.* device adb lists first. `QfRetry` is one turn of the `SetSerial`/`GetState` loop.
  - `acq` records what the acquisition has done.
  - The devices are the environment: they connect, drop off (`Disconnect`) and are authorised on the phone (`Authorize`) at any time. Devices may also be connected from an earlier session at the start.
- **`StreamingPuller`** models androidqf_ward's `StreamingBuffer` and one call of `StreamingPuller`. It covers the pull, backup and bugreport operations, each to a buffer or to a writer.
  - `Begin` is the argument checks. `StreamChunk` is one chunk that `cmd.Run` copies from adb's output into the destination, in chunks of any size. `Write` is the buffer's memory-limited `Write`. `StreamEnd` is `cmd.Run` returning.
  - `Generate` and `GenerateOutput` are `generateBugreport`. Between them, bugreportz has written the zip on the device but adb has not yet returned its output. `Cleanup` is the deferred `cleanupDeviceFile`.
  - `Reset` is the caller resetting the returned buffer. `Drop` is the device link going down at any moment (the environment).
  - No code under `src/` calls the puller. `adbpair.go` only declares it as a field of `Acquisition`.
- **`AttestationKey`** models `generateAttestationKeyIfEmpty`, called repeatedly with the profile's `Persist` or with nil.
  - `NewHardwareAttestationKey` returns a fresh key, a nil key, `ErrUnsupported` or another error.
  - `stored` is the caller's `p.AttestationKey`. No property is checked of it: its one guard is the emptiness test, and the nil-`p` case (hwattest.go:41) turns on the return value, which the doc comment describes correctly for the local `p`.
- **`Generator`** (`analyst/cmd/generator`) and **`GenCli`** (`analyst/cli/gen.go`) model the build tools step by step.
  - Each step may fail through `log.Fatalf` or the process being killed (`Fault`, at most `MaxFaults` times). That ends the run and leaves the files as they are. The developer then runs the command again (`Start`, at most `MaxRuns` runs).
  - File contents are abstracted to which steps and patches have taken effect: `done`/`applied` in `Generator`, and `files[f]` in `GenCli`.
  - A patch applied to a file that is missing or already patched fails. That failure is caused by the program, so it is not bounded.
  - The initial state of `analyst/cli` in `GenCli` is any mix of present, absent and patched files, because the directory is checked in.
- **`NotificationManager`** is the abstract specification of what `WatchNotifications` promises. It waits for the app to be ready and returns a watching or an idle manager. A watching manager delivers every notification in order until it is stopped, and a stopped manager ends.
  - `Notifier` refines it under the mapping `ManagerState`. `ManagerState` maps the call before it returns to `waiting`, an exited goroutine to `ended`, a cancelled context to `stopped`, and otherwise whether the watch was started to `watching` or `idle`.
  - The refinement is `ImplementsManager == Abstract!Spec`, where `Abstract` is `INSTANCE NotificationManager WITH state <- ManagerState`. TLC also checks the abstract weak-fairness conditions.
- **`Checksum`** models `checksumNoFold`, `checksum`, `pseudoHeaderChecksumNoFold` and the two exported wrappers, one call at a time.
  - Each step is one block of `checksumNoFold`: the 128-byte loop, or one of the 64, 32, 16, 8, 4, 2 and 1-byte tails. A block is its `bits.Add64` carry chain (`AddWords`), then `ac += carry` wrapping at 64 bits.
  - `CallNoFold` and `ReturnNoFold` are the byte-order swaps on entry and exit. They are `NativeEndian.PutUint64` followed by `BigEndian.Uint64`, on a little-endian host.
  - `FoldChecksum` is the four folds and the truncation to uint16.
  - A computation chains one or more buffers, as `pseudoHeaderChecksumNoFold` does.
  - The reference `Rfc1071` adds big-endian 16-bit words with end-around carry, padding an odd last byte with zero.
- **`GsoSplit`** models one call of `GSOSplit`.
  - The packet's bytes are their own positions, so every copied byte can be traced. `outBuffs[k]` records what the call wrote from `offset` on, and `caps[k]` is the buffer's length.
  - `Call` is everything before the segment loop: the `GSONone` copy, the header-length check, the header-only copy of an empty payload, the segment count and its check. `CopySegment` is one turn of the loop, and `Return` is the final return.
  - `copy` writes what fits. Slicing a buffer past its length and dividing by a zero `gsoSize` panic, as Go does.
- **`MCPrimitives`** checks the per-call primitives in one run: `Checksum`, `GSOSplit`, and `MagicHeaderConfig` (a configuration loaded, then one message sent and received). A behaviour is one of them and the others stay idle, so the state space is the sum of the three and not their product. They share no state.
  - `AwgProtocol` is a summand of `MCTunnelAndForensics` rather than of this run. Its `MaxU32` is 9, and TLC evaluates the constant definitions of `AwgMagicHeader` (such as `U32`) once per module, so two instances at different widths cannot share a run.
- **`MCBuildTools`** combines the two `go generate` tools the same way. A behaviour is the developer running one of them until it succeeds. Each tool keeps its own variables, renamed apart. It has no run of its own; `MCHooksAndTools` instantiates it.
- **`MCChecksumSplit`** splits buffers into two chained calls at every offset.
- **`MCTunnelAndForensics`** checks `AwgProtocol`, `AdbPair` and `StreamingPuller` in one run, the way `MCPrimitives` combines its primitives. `AdbPair` and the puller each have an "off" pc, and the tunnel runs when both are off. The puller's `pc` and device link, and the tunnel's `pc` (`awgPc`), are renamed apart from `AdbPair`'s. Each part's fairness is given to its own steps only.
- **`MCHooksAndTools`** checks `Notifier`, `AttestationKey` and `MCBuildTools` in one run. A variable `part` picks one at the start, and the others stay in their initial or "off" states. Each part's fairness is given to its own steps only.
- **`MCAdbPair`** (for the `adb_other_device` and `unencrypted_on_hash_error` runs) and **`MCGenerator`** instantiate the other modules with model values.
- **`MCAwgConfigs`** also defines `CfgAOff` (configuration A with `IsSet` false) and `ZeroCfg` (a nil `Values`), which the `junk_when_off` and `nil_magic_panic` runs use.

## Runs

| Run | Checks | Result |
|---|---|---|
| `torn_panic` | `DrawNeverPanics` | violated: the same race gives min > max and a panic (prng.go:44) |
| `keystream_reuse` | `KeystreamNeverReused` | violated: two workers read the same ChaCha8 position (prng.go:61) |
| `junk_when_off` | `NoJunkWhenOff` | violated: after a configuration with junk sizes and `IsSet` false is installed and `IsOn` is cleared, `CreateInitHeaderJunk` still returns junk (awg.go:73), against spec.md's disabled-is-empty contract |
| `nil_magic_panic` | `UnconfiguredKeepsDefault` | violated: `GetMsgType` on a Protocol whose magic headers were never configured panics (awg.go:108); the spec asks for the default type, as `GetMagicHeaderMinFor` returns |
| `primitives` | `ChecksumIsRfc1071`, `SplitIsLossless`, `FailsOnlyAsSpecified`, `MagicTypeOK`, `ValidationMatchesDisjointness` (NewMagicHeaders accepts exactly the pairwise-disjoint sets; reference definition `PairwiseDisjoint`), `RoundTrip` (a drawn value classifies to its own type) | pass, about 451k states.  The magic-header part covers `NewMagicHeaders` and the send/receive round trip. Every stride, carry and swap yields the RFC 1071 sum, for single buffers and even-offset chains. `GSOSplit` into buffers that fit loses, duplicates and reorders no byte and puts the header before every chunk. It fails exactly on the contract's errors and otherwise returns ceil(payload/gsoSize) segments. |
| `defaults_overlap_comment` | `DefaultsFailOverlapCheck` | violated: `NewMagicHeaders` accepts and configures the default ranges 1, 2, 3, 4, although the comment on `NewMagicHeadersUnchecked` (magic_header.go:92-93) says these consecutive values would fail the overlap check. The check at line 79 rejects only `Max >= next Min`, so `ValidationMatchesDisjointness` passes and the comment gives a wrong reason for bypassing validation |
| `checksum_split` | `ChecksumIsRfc1071` | violated: a buffer chained at an odd offset sums differently from the whole buffer (checksum.go:76), against spec.md §8 |
| `hooks_and_tools` | `WatchReturns`, `StopEndsGoroutine`, `NotificationsDelivered`, `ImplementsManager`, `CliConverges`, `PatchNeverConflicts` | pass, about 8k states. `AttestationKey`'s actions run here with no property of their own (see the hazards). Reruns of `gen.go` after any crash converge to every file copied and patched once, and no rerun of the generator re-applies a patch. For the watcher: it returns whenever the backend appears, `Stop` ends either goroutine, callback errors never end the watch, and the watcher implements `NotificationManager` |
| `tunnel_and_forensics` | `TunnelTypeOK`, `ReconfigurationCompletes`, `QfTerminatesOnceAuthorized`, `DeliversOrExplains`, `BugreportRemoved` | pass, about 50k states. With two workers making junk, draw and classify calls, a reconfiguration that has asked for `Mux.Lock` always installs its Cfg and sets `IsOn`: every junk call gives back its read lock on every return path (the deferred `RUnlock`), and a pending `Lock` holds off new readers. The CLI exits once the chosen device stays connected and authorised. A puller call succeeds only with all of the device data and fails only for a cause. It removes the bugreport zip unless the link was lost. |
| `adb_other_device` | `AcquiresPairedDevice` | violated: `qf` acquires the first 100.* device, not `--host` (adbpair.go:200) |
| `unencrypted_on_hash_error` | `UnencryptedDataWarned` | violated: a `HashFiles` error after the modules collected data returns before `StoreSecurely`, leaving the acquisition in plaintext without the "data is unencrypted" warning that `qf` gives when encryption fails (adbpair.go:249-253, 260) |
| `generator_converges` | `Converges` | violated: a run that dies after `cp -r` leaves a tree every rerun skips (main.go:34) |

The findings in `PROJECT.json` record what each violation shows.

Modelling also met further disagreements that the models reach but no run checks:
- `adbpair --qf` exits 0 without an acquisition when no MESH device is listed (adbpair.go:174, 268).
- `generateAttestationKeyIfEmpty` returns true for `p == nil` while the key is lost (hwattest.go:41-45).
- `MagicHeaders.Get` never draws a range's Max, because `RandomSizeInRange` draws modulo `max-min` (prng.go:52).
- After the device link drops, `cleanupDeviceFile` ignores the failed `rm`, so the bugreport zip stays on the device and nothing reports it (streaming_buffer.go:276, and 249 before the defer is registered).
- `GSOSplit` returns success with a segment cut short when a buffer is too small for its header and chunk (gso.go:94). It panics when `gsoSize` is 0 and the payload is not empty (gso.go:79). Neither is an error of the contract. `SplitIsLossless` is therefore stated for buffers that fit.

The hazards in `PROJECT.json` list these with the invariant that would show each one.

## Bounds

- **`MagicHeaderConfig`** uses `MaxU32 = 5`. This gives every arrangement of four ranges over 6 values that matters for the check: equal Mins, touching ranges, nesting, and disjoint with gaps. A valid configuration needs four disjoint ranges, and 0..5 leaves room for one range of width 3, so the draw takes more than one value.
- **`AwgProtocol`** uses:
  - `MaxCalls = 2` per worker in the violation runs, which lets both workers overlap a reconfiguration. In the pass run `MaxCalls = 1`: one junk call holding the read lock while the device waits, and the other worker blocked behind the pending `Lock`, is already the case `ReconfigurationCompletes` is about, and it keeps the liveness check within seconds (with 2 calls it takes five minutes).
  - `MaxReconfigs = 1`: a single install already shows every race.
  - In the pass run, `Configs = {CfgA}`, so the reconfiguration goes from the default to A. The violation runs may also install B.

- **`Notifier`** uses `MaxPolls = 3`. That is enough for the backend to be assigned before the read, during the poll, or never. `MaxNotify = 2`, so a failing callback is followed by another notification.
- **`AdbPair`** uses three devices: two MESH devices (`100.*`) and one LAN device. With two MESH devices, "the first MESH device" can differ from `--host`. Devices may start connected or authorised, and they connect, drop and get authorised during the run.
- **`StreamingPuller`** (in `MCTunnelAndForensics`) uses a "MB" of 2 bytes, limits of 0, 1 and 2 MB, and device data of 0 to 5 bytes.
  - These cover data below, exactly at and above the limit, with every way of chunking it.
  - They also cover empty arguments, nil, working and failing writers, and every operation.
- **`AttestationKey`** uses `MaxCalls = 4` and four hardware keys, so every call can create a fresh key. That allows a generation followed by three more calls, with `p` nil or not.
- **`Checksum`** uses `Byte = 4`, a byte of 2 bits. The uint16 and uint64 widths become `Byte^2` and `Byte^8`, and every `Add64` and `ac += carry` wraps at that width.
  - Folding modulo `Byte^2-1` behaves as it does modulo 2^16-1. With this scale four folds are still needed: TLC shows that three are not enough.
  - The inputs are all-ones (maximal bytes, which force every carry), zero and ramp buffers of 23 lengths from 0 to 257. These lengths sit on both sides of each stride and of the 128-byte loop's second turn. Each is checked with initial values 0, 1 and 15.
  - The chained inputs are two-buffer chains (2, 8 or 130 bytes followed by 1, 63 or 129) and pseudo-header chains of four parts.
- **`GsoSplit`** (in `MCPrimitives`) uses unsegmented and TCP packets of 0, 2, 5 and 8 bytes, headers of 0, 2 and 5 bytes, `gsoSize` 0, 1 and 3, offsets 0 and 1, and up to three buffers of 0, 4 or 12 bytes each.
  - This gives one, two and three segments, with the last chunk full or short.
  - It also gives one buffer too few and exactly enough, a header longer than the packet, an empty payload, truncating buffers and a buffer shorter than the offset.
  - The spec's example (9000 bytes, 40-byte header, `gsoSize` 1460, 7 segments, 6 buffers fail) has the same shape at this scale.
- **`GenCli`** uses two files, one patch each, and `MaxFaults = 2`, `MaxRuns = 3`.
- **`Generator`** (with `GenCli`, in `MCBuildTools` under `MCHooksAndTools`, and in `MCGenerator`) uses three patches, `MaxFaults = 4` and `MaxRuns = 5`, so a crash can hit each stage before a rerun.

## Fairness

- `Checksum` and `GsoSplit` check only safety: a call is sequential code.
- `MagicHeaderConfig` checks only safety. `AwgProtocol`'s `ReconfigurationCompletes` assumes weak fairness for a worker in the middle of a call and for a reconfiguration in progress: the Go scheduler eventually runs a runnable goroutine. No fairness makes a worker start a call or the device reconfigure, and no fairness orders the workers' steps.
- The liveness properties assume weak fairness only for code that runs by itself once it is able to:
  - the single CLI goroutine of `adbpair` (`WF_cli(Cli)`): it waits on nothing but sleeps;
  - the `WatchNotifications` caller, the watch callback and the manager's goroutine once its context is cancelled;
  - a generator run in progress (`WF(Run)`).
- The developer rerunning a failed `go generate` (`WF(Start)`) is a fairness assumption about the user. It is bounded by `MaxRuns`.
- The environment gets no fairness: the user authorising the phone, devices connecting, the app becoming ready, the backend being assigned, notifications and the call of `Stop`. The device link of `StreamingPuller` (`Drop`) gets no fairness either, and the puller is checked only for safety. For this reason `QfTerminatesOnceAuthorized` is stated under the hypothesis that the device stays connected and authorised. Without that hypothesis, `qf`'s loop (adbpair.go:211) can run forever.

## Not modelled yet (planned)

1. Abstract specification for the protocol: an atomic "stamp from the current configuration" spec, with `AwgProtocol` as its refinement. Because of the torn read this refinement fails, so the plan is to state it for the locked variant and to record the failure for the code.

Some parts are not modelled at all:

- `PRNG.ReadSize` and `SetRandomGenerator` have no caller anywhere in the repository, so no behaviour reaches them. The PRNG and magic-header components still count as modelled, because every reachable operation that changes state is an action.
- The `tsnet-funnel` example, the `meshcli` main, and the transport interfaces in `conn/tailscale_compat.go`, which have no behaviour.
- The androidqf modules and the adb wrapper (vendored), whose work is shell I/O. `AdbPair` reduces them to success or a logged error.
