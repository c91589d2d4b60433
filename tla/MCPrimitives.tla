---------------------------- MODULE MCPrimitives ----------------------------
(***************************************************************************)
(* The per-call primitives of the core: the tun package's offload         *)
(* utilities, Checksum/PseudoHeaderChecksum and GSOSplit, and the loading  *)
(* of a magic-header configuration followed by one message sent and       *)
(* received (awg's MagicHeaderConfig).  They share no state.  A behaviour  *)
(* is one of them; the others stay idle, so the state space is the sum of  *)
(* the three, not the product.                                             *)
(***************************************************************************)
EXTENDS Naturals, Sequences

VARIABLES
    input, parts, b, ac, stride, sum, pc, result,   \* Checksum
    split, outBuffs, sizes, seg, ret, status,       \* GsoSplit
    headerValues, phase, values, msg, received      \* MagicHeaderConfig

CONSTANTS Nil, NoMatch, Empty, NotU32

cvars == <<input, parts, b, ac, stride, sum, pc, result>>
gvars == <<split, outBuffs, sizes, seg, ret, status>>
mvars == <<headerValues, phase, values, msg, received>>

\* Two-bit bytes: uint16 is 0..15 and uint64 is 0..65535.
MCByte == 4

\* Buffers: all ones (every Add64 carries), all zero, and a ramp.
Ones(n) == [i \in 1..n |-> MCByte - 1]
Zeros(n) == [i \in 1..n |-> 0]
Ramp(n) == [i \in 1..n |-> (i * 3) % MCByte]

\* Lengths on both sides of every stride boundary, and two 128-byte loops.
Lengths == {0, 1, 2, 3, 4, 5, 7, 8, 9, 15, 16, 17, 31, 32, 33,
            63, 64, 65, 127, 128, 129, 255, 257}

Single ==
    {[parts |-> <<buf>>, initial |-> init] :
        buf \in UNION {{Ones(n), Zeros(n), Ramp(n)} : n \in Lengths},
        init \in {0, 1, MCByte ^ 2 - 1}}

\* checksum(payload, pseudoHeaderChecksumNoFold(...)) chains at even offsets.
Chained ==
    {[parts |-> <<Ones(k), Ramp(n)>>, initial |-> 0] :
        k \in {2, 8, 130}, n \in {1, 63, 129}}

\* PseudoHeaderChecksum for IPv4 (4-byte) and IPv6 (16-byte) addresses:
\* the chain src, dst, {0, protocol}, big-endian totalLen.
Pseudo ==
    {[parts |-> <<Ones(a), Ramp(a), <<0, p>>, <<l \div MCByte, l % MCByte>>>>,
      initial |-> 0] :
        a \in {4, 16}, p \in {1, MCByte - 1}, l \in {0, MCByte ^ 2 - 1}}

ChecksumCalls == Single \cup Chained \cup Pseudo

\* GSOSplit: unsegmented and TCP packets of up to 8 bytes, headers of 0, 2
\* and 5 bytes, segment sizes 0, 1 and 3, up to three buffers of 0, 4 or 12
\* bytes (12 holds every segment, 4 truncates, 0 is shorter than offset 1).
GsoCalls ==
    {[type |-> t, hdrLen |-> h, gsoSize |-> g, len |-> l, caps |-> c,
      offset |-> o] :
        t \in {"none", "tcp4"}, h \in {0, 2, 5}, g \in {0, 1, 3},
        l \in {0, 2, 5, 8}, o \in {0, 1},
        c \in UNION {[1..n -> {0, 4, 12}] : n \in 0..3}}

C == INSTANCE Checksum WITH Byte <- MCByte, Inputs <- ChecksumCalls
G == INSTANCE GsoSplit WITH Calls <- GsoCalls

\* uint32 scaled to 0..5: six values are enough for four disjoint ranges
\* one of which spans three values, for touching ranges (Max + 1 = next
\* Min), shared end points, nested ranges, equal Mins and singletons, the
\* cases the overlap check must tell apart.
MCMaxU32 == 5

M == INSTANCE MagicHeaderConfig WITH MaxU32 <- MCMaxU32

ChecksumIdle ==
    /\ input = [parts |-> <<>>, initial |-> 0] /\ parts = <<>> /\ b = <<>>
    /\ ac = 0 /\ stride = 0 /\ sum = 0 /\ pc = "idle" /\ result = 0

GsoIdle ==
    /\ split = [type |-> "none", hdrLen |-> 0, gsoSize |-> 0, len |-> 0,
                caps |-> <<>>, offset |-> 0]
    /\ outBuffs = <<>> /\ sizes = <<>> /\ seg = 0 /\ ret = 0
    /\ status = "idle"

MagicIdle ==
    /\ headerValues = <<>> /\ phase = "off" /\ values = Nil
    /\ msg = [type |-> 1, value |-> 0] /\ received = Nil

Init ==
    \/ C!Init /\ GsoIdle /\ MagicIdle
    \/ G!Init /\ ChecksumIdle /\ MagicIdle
    \/ M!Init /\ ChecksumIdle /\ GsoIdle

Next ==
    \/ C!Next /\ UNCHANGED <<gvars, mvars>>
    \/ G!Next /\ UNCHANGED <<cvars, mvars>>
    \/ M!Next /\ UNCHANGED <<cvars, gvars>>

Spec == Init /\ [][Next]_<<cvars, gvars, mvars>>

(***************************************************************************)
(* Checksum and PseudoHeaderChecksum return the RFC 1071 sum of the bytes  *)
(* (Checksum's ChecksumIsRfc1071: strides, carries, swaps and folds).      *)
(***************************************************************************)
ChecksumIsRfc1071 == C!ChecksumIsRfc1071

(***************************************************************************)
(* GSOSplit into large enough buffers loses, duplicates and reorders no    *)
(* byte, and puts the header before every chunk (GsoSplit's               *)
(* SplitIsLossless).                                                       *)
(***************************************************************************)
SplitIsLossless == G!SplitIsLossless

(***************************************************************************)
(* GSOSplit fails exactly on the contract's errors and otherwise returns   *)
(* ceil(payload / gsoSize) segments (GsoSplit's FailsOnlyAsSpecified).     *)
(***************************************************************************)
FailsOnlyAsSpecified == G!FailsOnlyAsSpecified

\* MagicHeaderConfig's type invariant: drawn and classified values are
\* uint32s.
MagicTypeOK == phase # "off" => M!TypeOK

(***************************************************************************)
(* NewMagicHeaders accepts a header list exactly when no value lies in two *)
(* of its ranges (its sort by Min and adjacent Max < Min test;            *)
(* MagicHeaderConfig's ValidationMatchesDisjointness).                     *)
(***************************************************************************)
ValidationMatchesDisjointness == M!ValidationMatchesDisjointness

(***************************************************************************)
(* A value MagicHeaders.Get(t) drew from an accepted configuration is      *)
(* classified by GetMagicHeaderMinFor as type t (MagicHeaderConfig's       *)
(* RoundTrip).                                                             *)
(***************************************************************************)
RoundTrip == M!RoundTrip

(***************************************************************************)
(* MagicHeaderConfig's DefaultsFailOverlapCheck: NewMagicHeaders rejects   *)
(* the default types 1..4, as the comment on NewMagicHeadersUnchecked says.*)
(***************************************************************************)
DefaultsFailOverlapCheck == M!DefaultsFailOverlapCheck

=============================================================================
