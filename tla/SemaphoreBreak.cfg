CONSTANTS
    t1 = t1
    t2 = t2
    t3 = t3
    Threads <- MCThreads
    prio <- MCprio
    Flags = {{}}
    InitValue = 1
    MaxValue = 5
    MaxCredit = 3
    Calls = {"wait"}
    Broadcasters = {}
    Destroyers = {}
    Released = {t1}
    Kicked = {}
SPECIFICATION Spec
INVARIANT NoExcess
CHECK_DEADLOCK FALSE
