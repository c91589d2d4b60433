CONSTANTS
    MaxU32 <- MCMaxU32
    Nil = Nil
    NoMatch = NoMatch
    Workers <- MCWorkers
    Configs <- MCConfigsA
    InitCfg <- ZeroCfg
    w1 = w1
    w2 = w2
    MaxCalls = 2
    MaxReconfigs = 1

SPECIFICATION Spec

SYMMETRY Symmetry

INVARIANT UnconfiguredKeepsDefault
