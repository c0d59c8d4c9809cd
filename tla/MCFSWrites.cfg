SPECIFICATION Spec
CONSTANTS
    RxDataFailurePeriod = 2
    RxDataRecoveryPeriod = 3
    ThrottleLowDelay = 1
    OffDelay = 1
    SuspendPeriod = 4
    Configs <- LandingConfigs
    HasBackup = FALSE
    DisarmDebounce = 1
    MaxRxLag = 2
    PowerOnDelay = 1
    MaxSaves = 1
INVARIANTS BlockEndsWithFailsafe
PROPERTIES RearmNeedsSwitchCycle LockoutNeedsSteadyLink
