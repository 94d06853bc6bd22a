CONSTANTS
    t1 = t1
    t2 = t2
    t3 = t3
    None = None
    All = All
    Unused = Unused
    Checked = {"monitor"}
    CondProfiles <- MCCondProfiles
    EventGroups <- MCEventGroups
    MonitorUses <- ParallelUses
SPECIFICATION Spec
INVARIANT SleepersPended
CHECK_DEADLOCK FALSE
