CONSTANTS
    t1 = t1
    t2 = t2
    t3 = t3
    None = None
    All = All
    Unused = Unused
    Checked = {"mutex", "cond", "event", "monitor"}
    CondProfiles <- MCCondProfiles
    EventGroups <- MCEventGroups
    MonitorUses <- MCMonitorUses
SPECIFICATION FairSpec
INVARIANTS SignalsReach RecursionRestoredUncancelled WaitersTracked WokenSatisfied
           SleepersTracked 
PROPERTIES TopSleeperServed BroadcastWakes EventsDelivered GrantsDelivered
CHECK_DEADLOCK FALSE
