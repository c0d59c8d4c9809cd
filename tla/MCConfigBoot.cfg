SPECIFICATION FairSpec
CONSTANTS
    Layout <- TwoGroups
    System = "system"
    Value = {"default", "user", "changed"}
    Default = "default"
    Configured = "user"
    PageStart <- OnePage
    Version = {1, 2}
PROPERTIES MismatchIsHandled
