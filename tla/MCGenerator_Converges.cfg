CONSTANTS
    Patches <- MCPatches
    pa = pa
    pb = pb
    pd = pd
    MaxFaults = 4
    MaxRuns = 5
SPECIFICATION Spec
PROPERTY Converges
