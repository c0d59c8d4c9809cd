SPECIFICATION Spec
CONSTANTS
    RxDataFailurePeriod = 1
    RxDataRecoveryPeriod = 2
    ThrottleLowDelay = 1
    OffDelay = 1
    SuspendPeriod = 1
    Configs <- ModeConfigs
    HasBackup = FALSE
    DisarmDebounce = 1
    MaxRxLag = 1
    PowerOnDelay = 1
    MaxSaves = 0
INVARIANTS LockoutHolds RescueKeepsNav MotorCutInTime
PROPERTIES StageTwoEngages
