CONSTANTS
    MaxPolls = 3
    MaxNotify = 2
    k1 = k1
    k2 = k2
    k3 = k3
    k4 = k4
    Loaded = Loaded
    NoKey = NoKey
    ZeroKey = ZeroKey
    f1 = f1
    f2 = f2
    pa = pa
    pb = pb
    pd = pd
SPECIFICATION HooksSpec
INVARIANT PatchNeverConflicts
PROPERTY WatchReturns
PROPERTY StopEndsGoroutine
PROPERTY NotificationsDelivered
PROPERTY ImplementsManager
PROPERTY CliConverges
