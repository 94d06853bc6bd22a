CONSTANTS
    t1 = t1
    t2 = t2
    t3 = t3
    Threads <- MCThreads
    prio <- MCprio
    Flags = {{"FIFO"}, {"PULSE"}}
    InitValue = 1
    MaxValue = 7
    MaxCredit = 3
    Calls = {"wait", "timedwait"}
    Broadcasters = {}
    Destroyers = {t3}
    Released = {t1, t2}
    Kicked = {t1}
SPECIFICATION Spec
INVARIANT Conservation
CHECK_DEADLOCK FALSE
