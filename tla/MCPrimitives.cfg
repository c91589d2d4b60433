CONSTANTS
    Nil = Nil
    NoMatch = NoMatch
    Empty = Empty
    NotU32 = NotU32
SPECIFICATION Spec
INVARIANT ChecksumIsRfc1071
INVARIANT SplitIsLossless
INVARIANT FailsOnlyAsSpecified
INVARIANT MagicTypeOK
INVARIANT ValidationMatchesDisjointness
INVARIANT RoundTrip
