SPECIFICATION FairSpec
CONSTANTS
    Hold = 1
    BackupHold = 1
    Debounce = 2
    Settle = 5
    Watchdog = 6
    HuntWindow = 2
    LockFrames = 2
    Relock = 3
    MaxStep = 2
    Setups <- TrialSetups
INVARIANTS SuccessIsHeard RestoredAfterTrial
PROPERTIES SteadyReceiverIsFound TrialEnds LinkIsFound
