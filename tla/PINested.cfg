CONSTANTS
    t1 = t1
    t2 = t2
    t3 = t3
    t4 = t4
    t5 = t5
    None = None
    Gone = Gone
    Nul = Nul
    Unused = Unused
    Checked = {"pi"}
    PIProfiles <- NestedProfile
    NameUses <- MCNameUses
    TimerUses <- MCTimerUses
    DeviceUses <- MCDeviceUses
    StreamUses <- MCStreamUses
    PipeUses <- MCPipeUses
SPECIFICATION Spec
INVARIANT NoInversion
CHECK_DEADLOCK FALSE
