--------------------------- MODULE AwgMagicHeader ---------------------------
(***************************************************************************)
(* The magic-header ranges of the AmneziaWG obfuscation layer               *)
(* (device/awg/magic_header.go) and the bounded draw of the PRNG            *)
(* (device/awg/prng.go) as pure operators.                                  *)
(*                                                                         *)
(* A uint32 is an integer in 0..MaxU32; MaxU32 is a scaled-down stand-in    *)
(* for 2^32 - 1.  None of the arithmetic below can leave 0..MaxU32 (the     *)
(* draw is below max - min, then min is added), so no wrap-around is lost.  *)
(* A uint64 word of the ChaCha8 keystream is any integer in Words: every    *)
(* residue modulo a range width is reachable, which is all the draw uses.   *)
(***************************************************************************)
EXTENDS Naturals, Sequences, SequencesExt, TLC

CONSTANTS
    MaxU32,   \* stand-in for the largest uint32
    Nil,      \* a nil MagicHeaders.Values slice
    NoMatch   \* the "no header for value" error

ASSUME MaxU32 \in Nat \ {0}

U32 == 0..MaxU32

\* Keystream words: enough values to reach every residue modulo a width.
Words == 0..MaxU32

\* The message types MagicHeaders.Get accepts (it rejects 0 and > 4):
\* init, response, cookie reply, transport.
MsgTypes == 1..4

\* type MagicHeader struct { Min, Max uint32 }
MagicHeader(min, max) == [Min |-> min, Max |-> max]

\* Every MagicHeader value, valid or not.
AllMagicHeaders == [Min : U32, Max : U32]

\* NewMagicHeader: an error when min > max.
NewMagicHeaderOk(min, max) == min <= max

\* NewMagicHeaderSameValue(value)
NewMagicHeaderSameValue(value) == MagicHeader(value, value)

\* The range sorted by Min, as slices.SortedFunc with cmp.Compare(lhs.Min,
\* rhs.Min).  Ranges with equal Min are rejected whichever order the sort
\* leaves them in, so the result of the check does not depend on it.
SortedByMin(headerValues) ==
    SortSeq(headerValues, LAMBDA l, r : l.Min < r.Min)

\* Variant with the neighbour comparison off by one (> for >=).
NewMagicHeadersOkGt(headerValues) ==
    /\ Len(headerValues) = 4
    /\ LET sorted == SortedByMin(headerValues)
       IN  \A i \in 1..3 : ~(sorted[i].Max > sorted[i + 1].Min)

\* NewMagicHeaders(headerValues): succeeds iff there are exactly four
\* ranges and, once sorted by Min, no range's Max reaches the next Min.
NewMagicHeadersOk(headerValues) ==
    /\ Len(headerValues) = 4
    /\ LET sorted == SortedByMin(headerValues)
       IN  \A i \in 1..3 : ~(sorted[i].Max >= sorted[i + 1].Min)

\* Variant that offsets the draw from max instead of min.
RandomSizeInRangeAddsMax(min, max, w) ==
    IF min = max THEN min
    ELSE (w % (max - min)) + max

\* RandomSizeInRange(min, max) given the keystream word w that p.Get()
\* returns (only consumed when min # max).  The caller has already
\* excluded min > max, which panics.
RandomSizeInRange(min, max, w) ==
    IF min = max THEN min
    ELSE (w % (max - min)) + min

\* MagicHeaders.Get(defaultMsgType) for a valid type, given the word w.
MagicHeadersGet(values, defaultMsgType, w) ==
    RandomSizeInRange(values[defaultMsgType].Min, values[defaultMsgType].Max, w)

\* Variant whose range test excludes Min.
GetMagicHeaderMinForStrictMin(values, msgType) ==
    IF values = Nil THEN msgType
    ELSE LET i == SelectInSeq(values,
                     LAMBDA h : h.Min < msgType /\ msgType <= h.Max)
         IN  IF i = 0 THEN NoMatch ELSE values[i].Min

\* Variant that answers with the matching range's Max.
GetMagicHeaderMinForMax(values, msgType) ==
    IF values = Nil THEN msgType
    ELSE LET i == SelectInSeq(values,
                     LAMBDA h : h.Min <= msgType /\ msgType <= h.Max)
         IN  IF i = 0 THEN NoMatch ELSE values[i].Max

\* Protocol.GetMagicHeaderMinFor(msgType): Nil values give msgType back;
\* otherwise the Min of the first range that contains it, or NoMatch.
GetMagicHeaderMinFor(values, msgType) ==
    IF values = Nil THEN msgType
    ELSE LET i == SelectInSeq(values,
                     LAMBDA h : h.Min <= msgType /\ msgType <= h.Max)
         IN  IF i = 0 THEN NoMatch ELSE values[i].Min

=============================================================================
