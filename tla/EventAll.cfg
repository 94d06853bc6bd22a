CONSTANTS
    t1 = t1
    t2 = t2
    t3 = t3
    None = None
    All = All
    Unused = Unused
    Checked = {"event"}
    CondProfiles <- MCCondProfiles
    EventGroups <- MCEventGroups
    MonitorUses <- MCMonitorUses
SPECIFICATION Spec
INVARIANT ConjunctiveWait
CHECK_DEADLOCK FALSE
