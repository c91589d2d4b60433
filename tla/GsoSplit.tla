------------------------------ MODULE GsoSplit ------------------------------
(***************************************************************************)
(* GSOSplit of amneziawg-go's tun package (tun/gso.go), one call.          *)
(*                                                                         *)
(* The packet's bytes are their own positions 1..len(pkt), so every byte   *)
(* copied can be traced back.  outBuffs[k] is the k-th output buffer,      *)
(* recorded as the bytes written from offset on; caps[k] is its length.    *)
(* copy() writes as many bytes as fit and says how many; slicing a buffer  *)
(* past its length and dividing by zero panic, as in Go.  sizes has the    *)
(* length of outBuffs, as every caller allocates them together.            *)
(***************************************************************************)
EXTENDS Naturals, Sequences, SequencesExt

CONSTANTS
    Calls   \* [type, hdrLen, gsoSize, len, caps, offset]: the arguments

Min2(x, y) == IF x <= y THEN x ELSE y

\* The first bytes of src that fit in room bytes: copy(dst, src).
Copied(room, src) == SubSeq(src, 1, Min2(room, Len(src)))

VARIABLES
    split,      \* the arguments of the call
    outBuffs,   \* outBuffs[k][offset:] as written by the call
    sizes,      \* sizes[k]
    seg,        \* the loop's i
    ret,        \* the count returned
    status      \* "call", "copy", "done", "failed", "panicked"

vars == <<split, outBuffs, sizes, seg, ret, status>>

Pkt      == [j \in 1..split.len |-> j]
Header   == SubSeq(Pkt, 1, split.hdrLen)
Payload  == SubSeq(Pkt, split.hdrLen + 1, split.len)
NumBuffs == Len(split.caps)

\* numSegments := (payloadLen + gsoSize - 1) / gsoSize
NumSegments == (Len(Payload) + split.gsoSize - 1) \div split.gsoSize

\* Variant that refuses when the buffers are exactly enough.
TooFewBuffersOrEqual == NumSegments >= NumBuffs

\* if numSegments > len(outBuffs): insufficient output buffers
TooFewBuffers == NumSegments > NumBuffs

\* n := copy(outBuffs[0][offset:], src); sizes[0] = n; return 1, nil
CopyWhole(src) ==
    IF split.offset > split.caps[1]
    THEN /\ status' = "panicked"
         /\ UNCHANGED <<outBuffs, sizes, ret>>
    ELSE LET w == Copied(split.caps[1] - split.offset, src) IN
         /\ outBuffs' = [outBuffs EXCEPT ![1] = w]
         /\ sizes' = [sizes EXCEPT ![1] = Len(w)]
         /\ ret' = 1
         /\ status' = "done"

Init ==
    /\ split \in Calls
    /\ outBuffs = [k \in 1..Len(split.caps) |-> <<>>]
    /\ sizes = [k \in 1..Len(split.caps) |-> 0]
    /\ seg = 0
    /\ ret = 0
    /\ status = "call"

\* Everything GSOSplit does before the segment loop: the GSONone copy, the
\* header-length check, the header-only copy of an empty payload, the
\* segment count and its check against the buffers.
Call ==
    /\ status = "call"
    /\ CASE split.type = "none" ->
              IF NumBuffs < 1
              THEN status' = "failed" /\ UNCHANGED <<outBuffs, sizes, ret>>
              ELSE CopyWhole(Pkt)
         [] split.hdrLen > split.len ->
              status' = "failed" /\ UNCHANGED <<outBuffs, sizes, ret>>
         [] Len(Payload) = 0 ->
              IF NumBuffs < 1
              THEN status' = "failed" /\ UNCHANGED <<outBuffs, sizes, ret>>
              ELSE CopyWhole(Header)
         [] split.gsoSize = 0 ->
              status' = "panicked" /\ UNCHANGED <<outBuffs, sizes, ret>>
         [] TooFewBuffers ->
              status' = "failed" /\ UNCHANGED <<outBuffs, sizes, ret>>
         [] OTHER ->
              status' = "copy" /\ UNCHANGED <<outBuffs, sizes, ret>>
    /\ UNCHANGED <<split, seg>>

\* Variant whose sizes[i] counts only the payload copy (n = copy(...)).
CopySegmentPayloadSize ==
    /\ status = "copy" /\ seg < NumSegments
    /\ LET k     == seg + 1
           start == seg * split.gsoSize
           end   == Min2(start + split.gsoSize, Len(Payload))
           room  == split.caps[k] - split.offset
       IN IF split.offset > split.caps[k]
          THEN /\ status' = "panicked"
               /\ UNCHANGED <<outBuffs, sizes, seg>>
          ELSE LET h == Copied(room, Header)
                   p == Copied(room - Len(h), SubSeq(Payload, start + 1, end))
               IN /\ outBuffs' = [outBuffs EXCEPT ![k] = h \o p]
                  /\ sizes' = [sizes EXCEPT ![k] = Len(p)]
                  /\ seg' = seg + 1
                  /\ UNCHANGED status
    /\ UNCHANGED <<split, ret>>

\* One turn of the loop: the header, then payload[start:end], into
\* outBuffs[i][offset:]; sizes[i] = n.
CopySegment ==
    /\ status = "copy" /\ seg < NumSegments
    /\ LET k     == seg + 1
           start == seg * split.gsoSize
           end   == Min2(start + split.gsoSize, Len(Payload))
           room  == split.caps[k] - split.offset
       IN IF split.offset > split.caps[k]
          THEN /\ status' = "panicked"
               /\ UNCHANGED <<outBuffs, sizes, seg>>
          ELSE LET h == Copied(room, Header)
                   p == Copied(room - Len(h), SubSeq(Payload, start + 1, end))
               IN /\ outBuffs' = [outBuffs EXCEPT ![k] = h \o p]
                  /\ sizes' = [sizes EXCEPT ![k] = Len(h) + Len(p)]
                  /\ seg' = seg + 1
                  /\ UNCHANGED status
    /\ UNCHANGED <<split, ret>>

\* return numSegments, nil
Return ==
    /\ status = "copy" /\ seg = NumSegments
    /\ ret' = NumSegments
    /\ status' = "done"
    /\ UNCHANGED <<split, outBuffs, sizes, seg>>

\* The call has returned or panicked.
Returned ==
    /\ status \in {"done", "failed", "panicked"}
    /\ UNCHANGED vars

Next == Call \/ CopySegment \/ Return \/ Returned

Spec == Init /\ [][Next]_vars

-----------------------------------------------------------------------------

\* What the call must produce, stated from the packet, not from the loop.

\* ceil(n / g), the least count of g-byte chunks that holds n bytes.
CeilDiv(n, g) == CHOOSE m \in 0..n : m * g >= n /\ (m = 0 \/ (m - 1) * g < n)

\* Every buffer the call returned holds offset, the header and a full chunk.
Fits ==
    \A k \in 1..ret :
        split.caps[k] >= split.offset +
            (IF split.type = "none" THEN split.len
             ELSE split.hdrLen + split.gsoSize)

\* The bytes of segment k after its header.
Body(k) == SubSeq(outBuffs[k], split.hdrLen + 1, Len(outBuffs[k]))

(***************************************************************************)
(* A successful split into buffers that are large enough loses, duplicates *)
(* and reorders nothing: an unsegmented packet is copied whole; otherwise  *)
(* every segment is the header followed by a chunk, sizes[k] is its        *)
(* length, the chunks in order are the payload, each holds at most         *)
(* gsoSize bytes and all but the last exactly gsoSize (GSOSplit's start,   *)
(* end and clamp, and the two copies at offset and offset+n).              *)
(***************************************************************************)
SplitIsLossless ==
    status = "done" /\ Fits =>
        /\ \A k \in 1..ret : sizes[k] = Len(outBuffs[k])
        /\ IF split.type = "none"
           THEN ret = 1 /\ outBuffs[1] = Pkt
           ELSE /\ \A k \in 1..ret :
                     /\ SubSeq(outBuffs[k], 1, split.hdrLen) = Header
                     /\ Len(Body(k)) <= split.gsoSize
                     /\ k < ret => Len(Body(k)) = split.gsoSize
                /\ FlattenSeq([k \in 1..ret |-> Body(k)]) = Payload

(***************************************************************************)
(* GSOSplit fails exactly when the contract says: no output buffer, a      *)
(* header longer than the packet, or fewer buffers than the               *)
(* ceil(payload / gsoSize) segments needed; with enough buffers it returns *)
(* that many segments (the numSegments formula and its check).             *)
(***************************************************************************)
FailsOnlyAsSpecified ==
    status \in {"done", "failed"} =>
        LET P      == split.len - split.hdrLen
            needed == IF split.type = "none" \/ P = 0 THEN 1
                      ELSE CeilDiv(P, split.gsoSize)
            bad    == \/ split.type # "none" /\ split.hdrLen > split.len
                      \/ needed > NumBuffs
        IN /\ status = "failed" <=> bad
           /\ status = "done" => ret = needed

=============================================================================
