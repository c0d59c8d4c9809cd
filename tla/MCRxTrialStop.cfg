SPECIFICATION Spec
CONSTANTS
    Hold = 1
    BackupHold = 1
    Debounce = 2
    Settle = 5
    Watchdog = 6
    HuntWindow = 2
    LockFrames = 2
    Relock = 3
    MaxStep = 1
    Setups <- RightSetups
PROPERTIES StopRestores
