CONSTANTS
    t1 = t1
    t2 = t2
    t3 = t3
    None = None
    Threads <- MCThreads
    prio <- MCprio
    Type = "NORMAL"
    MaxCount = 2
    Weak = {}
    Calls = {"lock"}
    Relockers = {}
    Released = {}
    Kicked = {}
    Signalled = {t1}
    Suspendable = {}
SPECIFICATION DisturbedSpec
INVARIANT MutualExclusion
CHECK_DEADLOCK FALSE
