-------------------------- MODULE MCChecksumSplit --------------------------
(***************************************************************************)
(* A buffer split into two chained checksumNoFold calls at every offset,   *)
(* the second call's initial being the first call's result.               *)
(***************************************************************************)
EXTENDS Checksum

MCByte == 4

Ramp(n) == [i \in 1..n |-> (i * 3) % MCByte]

\* Ramp(n) split after its k-th byte.
Split(n, k) ==
    [parts |-> <<SubSeq(Ramp(n), 1, k), SubSeq(Ramp(n), k + 1, n)>>,
     initial |-> 0]

SplitCalls == UNION {{Split(n, k) : k \in 0..n} : n \in {2, 3, 4, 9}}

=============================================================================
