CONSTANTS
    Byte <- MCByte
    Inputs <- SplitCalls
SPECIFICATION Spec
INVARIANT ChecksumIsRfc1071
