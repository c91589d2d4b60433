CONSTANTS
    Nil = Nil
    NoMatch = NoMatch
    Empty = Empty
    NotU32 = NotU32
SPECIFICATION Spec
INVARIANT DefaultsFailOverlapCheck
