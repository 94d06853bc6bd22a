CONSTANTS
    t1 = t1
    t2 = t2
    t3 = t3
    t4 = t4
    t5 = t5
    None = None
    Gone = Gone
    Nul = Nul
    Unused = Unused
    Checked = {"pi", "mqueue", "mqname", "timer", "rtdm", "bufp", "pipe", "signals", "sem", "semtimed"}
    PIProfiles <- MCPIProfiles
    NameUses <- MCNameUses
    TimerUses <- MCTimerUses
    DeviceUses <- MCDeviceUses
    StreamUses <- MCStreamUses
    PipeUses <- MCPipeUses
SPECIFICATION Spec
INVARIANTS QueuesKept ChainBoosted ExactBoost SlotsConserved QueueServed SelectSound
            ShotCovers TimersKept RemovalWaits 
           ExclusiveInstance StreamIntactSingle WaitersInformed  PeersWoken
           KickedAwake CountExact NoExcess
PROPERTIES OverrunsExact ReadsInOrder PostUnblocks
CHECK_DEADLOCK FALSE
