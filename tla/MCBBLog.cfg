SPECIFICATION Spec
CONSTANTS
    PageSize = 3
    PagesPerSector = 3
    Sectors = 4
    BufferSize = 5
    Settings <- LogSettings
    MaxWrite = 3
    GracePeriod = 1
    ShutdownTimeout = 2
    MspReads = FALSE
    PromptDma = TRUE
    CrashInErase = FALSE
INVARIANTS TypeOK NoOverwrite BootFindsLog RollingEraseIsLast InFlightIsBuffered
PROPERTIES ImplementsVolume
