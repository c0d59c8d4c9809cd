SPECIFICATION FairSpec
CONSTANTS
    PageSize = 2
    PagesPerSector = 3
    Sectors = 3
    BufferSize = 3
    Settings <- BaseSettings
    MaxWrite = 2
    GracePeriod = 0
    ShutdownTimeout = 1
    MspReads = TRUE
    PromptDma = TRUE
    CrashInErase = FALSE
PROPERTIES RingDrains EraseBegins SyncReturns
