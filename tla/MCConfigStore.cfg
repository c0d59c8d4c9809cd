SPECIFICATION FairSpec
CONSTANTS
    Layout <- TwoGroups
    System = "system"
    Value = {"default", "user", "changed"}
    Default = "default"
    Configured = "user"
    PageStart <- TwoPages
    Version = {1, 2}
INVARIANTS ValidIsLast
PROPERTIES SaveIsStored BootEnds
