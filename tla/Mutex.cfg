CONSTANTS
    t1 = t1
    t2 = t2
    t3 = t3
    None = None
    Threads <- MCThreads
    prio <- MCprio
    Type = "NORMAL"
    MaxCount = 2
    Weak = {t2}
    Calls = {"lock", "timedlock", "trylock"}
    Relockers = {t1}
    Released = {t1, t2, t3}
    Kicked = {t1}
    Signalled = {}
    Suspendable = {}
SPECIFICATION Spec
INVARIANTS SleepersKnown OwnerCounts MutualExclusion NoOrphan
PROPERTIES NoOvertaking StealsByPriority ServiceSpec
CHECK_DEADLOCK FALSE
