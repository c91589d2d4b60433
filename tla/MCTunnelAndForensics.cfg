CONSTANTS
    meshA = meshA
    meshB = meshB
    lan = lan
    None = None
    w1 = w1
    w2 = w2
    MaxU32 <- MCMaxU32
    Nil = Nil
    NoMatch = NoMatch
SPECIFICATION Spec
INVARIANT TunnelTypeOK
INVARIANT DeliversOrExplains
INVARIANT BugreportRemoved
PROPERTY QfTerminatesOnceAuthorized
PROPERTY ReconfigurationCompletes
