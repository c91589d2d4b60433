------------------------------ MODULE Checksum ------------------------------
(***************************************************************************)
(* The Internet checksum of amneziawg-go's tun package (tun/checksum.go).  *)
(*                                                                         *)
(* A computation is one exported call: Checksum(b, initial), or            *)
(* PseudoHeaderChecksum, which chains checksumNoFold over the source       *)
(* address, the destination address, {0, protocol} and the big-endian     *)
(* length; a caller may chain further calls the same way.  Each step of    *)
(* the behaviour is one block of checksumNoFold: the 128-byte loop, then   *)
(* the 64, 32, 16, 8, 4, 2 and 1-byte tails, each an Add64 carry chain     *)
(* followed by `ac += carry'.                                              *)
(*                                                                         *)
(* Widths are scaled: a byte holds 0..Byte-1 instead of 0..255, so uint16, *)
(* uint32 and uint64 hold Byte^2, Byte^4 and Byte^8 values, and every      *)
(* addition wraps at that width as in Go.  One's-complement arithmetic     *)
(* modulo Byte^2 - 1 behaves as it does modulo 2^16 - 1.  The host is      *)
(* little-endian (amd64, arm64), so binary.NativeEndian reads bytes low    *)
(* first.                                                                  *)
(***************************************************************************)
EXTENDS Naturals, Sequences, SequencesExt

CONSTANTS
    Byte,       \* values of a byte
    Inputs      \* calls: [parts |-> the buffers chained, initial |-> uint64]

U16 == Byte ^ 2
U64 == Byte ^ 8

ASSUME Byte \in Nat /\ Byte >= 2

\* binary.NativeEndian.Uint16/32/64 on a little-endian host.
RECURSIVE LE(_)
LE(bs) == IF bs = <<>> THEN 0 ELSE Head(bs) + Byte * LE(Tail(bs))

\* The k bytes of v, low first (binary.NativeEndian.PutUint64).
BytesLE(v, k) == [i \in 1..k |-> (v \div Byte ^ (i - 1)) % Byte]

\* binary.NativeEndian.PutUint64 then binary.BigEndian.Uint64.
Swap64(v) == LE(Reverse(BytesLE(v, 8)))

\* The words one block adds: uint64s of 8 bytes, or one shorter word.
Words(bs) ==
    IF Len(bs) < 8 THEN <<LE(bs)>>
    ELSE [i \in 1..(Len(bs) \div 8) |-> LE(SubSeq(bs, 8 * i - 7, 8 * i))]

\* ac, carry = bits.Add64(ac, w, carry) over the words of a block.
RECURSIVE AddWords(_, _, _)
AddWords(ac, carry, ws) ==
    IF ws = <<>> THEN <<ac, carry>>
    ELSE LET s == ac + Head(ws) + carry
         IN AddWords(s % U64, s \div U64, Tail(ws))

\* ac = (ac >> 16) + (ac & 0xffff)
Fold(v) == (v \div U16) + (v % U16)

VARIABLES
    input,      \* the call being computed
    parts,      \* buffers still to be summed
    b,          \* checksumNoFold's b
    ac,         \* checksumNoFold's ac
    stride,     \* the block checksumNoFold is at; 0 once all are done
    sum,        \* the value the last checksumNoFold returned, or the initial
    pc,         \* "call", "sum", "done"
    result      \* the folded uint16

vars == <<input, parts, b, ac, stride, sum, pc, result>>

Strides == {128, 64, 32, 16, 8, 4, 2, 1}

Init ==
    /\ input \in Inputs
    /\ parts = input.parts
    /\ b = <<>>
    /\ ac = 0
    /\ stride = 0
    /\ sum = input.initial
    /\ pc = "call"
    /\ result = 0

\* checksumNoFold(part, sum): the initial value is put in native order and
\* read back big-endian.
CallNoFold ==
    /\ pc = "call" /\ parts # <<>>
    /\ b' = Head(parts)
    /\ parts' = Tail(parts)
    /\ ac' = Swap64(sum)
    /\ stride' = 128
    /\ pc' = "sum"
    /\ UNCHANGED <<input, sum, result>>

\* Variant that drops the end-around carry of a block.
BlockNoCarry(n) ==
    /\ pc = "sum" /\ stride = n
    /\ IF Len(b) >= n
       THEN /\ ac' = AddWords(ac, 0, Words(SubSeq(b, 1, n)))[1]
            /\ b' = SubSeq(b, n + 1, Len(b))
            /\ stride' = IF n = 128 THEN 128 ELSE n \div 2
       ELSE /\ stride' = n \div 2
            /\ UNCHANGED <<ac, b>>
    /\ UNCHANGED <<input, parts, sum, pc, result>>

\* One block: `for len(b) >= 128' or `if len(b) >= n', the Add64 chain,
\* `ac += carry' (wrapping), and b = b[n:].  The 1-byte tail adds the
\* native-order uint16 of {b[0], 0}, which is b[0].
Block(n) ==
    /\ pc = "sum" /\ stride = n
    /\ IF Len(b) >= n
       THEN LET r == AddWords(ac, 0, Words(SubSeq(b, 1, n))) IN
            /\ ac' = (r[1] + r[2]) % U64
            /\ b' = SubSeq(b, n + 1, Len(b))
            /\ stride' = IF n = 128 THEN 128 ELSE n \div 2
       ELSE /\ stride' = n \div 2
            /\ UNCHANGED <<ac, b>>
    /\ UNCHANGED <<input, parts, sum, pc, result>>

\* checksumNoFold returns ac put in native order and read big-endian.
ReturnNoFold ==
    /\ pc = "sum" /\ stride = 0
    /\ sum' = Swap64(ac)
    /\ pc' = "call"
    /\ UNCHANGED <<input, parts, b, ac, stride, result>>

\* checksum / PseudoHeaderChecksum: four folds, then uint16(ac).
FoldChecksum ==
    /\ pc = "call" /\ parts = <<>>
    /\ result' = Fold(Fold(Fold(Fold(sum)))) % U16
    /\ pc' = "done"
    /\ UNCHANGED <<input, parts, b, ac, stride, sum>>

Done ==
    /\ pc = "done"
    /\ UNCHANGED vars

Next ==
    \/ CallNoFold
    \/ \E n \in Strides : Block(n)
    \/ ReturnNoFold
    \/ FoldChecksum
    \/ Done

Spec == Init /\ [][Next]_vars

-----------------------------------------------------------------------------

(* RFC 1071, the reference: big-endian 16-bit words, an odd last byte      *)
(* padded on the right, added with end-around carry.                       *)

\* f[lo] + ... + f[hi], halving the range.
RECURSIVE SumRange(_, _, _)
SumRange(f, lo, hi) ==
    IF lo > hi THEN 0
    ELSE IF lo = hi THEN f[lo]
    ELSE LET m == (lo + hi) \div 2
         IN SumRange(f, lo, m) + SumRange(f, m + 1, hi)

\* The sum of the big-endian words, as plain integers.
WordSum(bs) ==
    LET n == (Len(bs) + 1) \div 2
        word == [i \in 1..n |-> bs[2 * i - 1] * Byte
                                + (IF 2 * i <= Len(bs) THEN bs[2 * i] ELSE 0)]
    IN SumRange(word, 1, n)

RECURSIVE OnesFold(_)
OnesFold(x) == IF x < U16 THEN x ELSE OnesFold((x \div U16) + (x % U16))

Rfc1071(bs, initial) == OnesFold(WordSum(bs) + initial)

(***************************************************************************)
(* The checksum is the RFC 1071 sum of the bytes, whatever strides         *)
(* checksumNoFold took and however the buffer was split into chained      *)
(* calls at even offsets (the pseudo-header chain): the Add64 carry        *)
(* chains, the end-around `ac += carry', the byte-order swaps and the four *)
(* folds lose nothing.                                                      *)
(***************************************************************************)
ChecksumIsRfc1071 ==
    pc = "done" =>
        result = Rfc1071(FlattenSeq(input.parts), input.initial)

=============================================================================
