SPECIFICATION FairSpec
CONSTANTS
    RxDataFailurePeriod = 2
    RxDataRecoveryPeriod = 2
    ThrottleLowDelay = 0
    OffDelay = 1
    SuspendPeriod = 1
    Configs <- LinkConfigs
    HasBackup = TRUE
    DisarmDebounce = 1
    MaxRxLag = 1
    PowerOnDelay = 1
    MaxSaves = 0
PROPERTIES LinkLossCutsMotor LockoutEnds BackupEndsFailsafe
