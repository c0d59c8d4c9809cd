SPECIFICATION FairSpec
CONSTANTS
    Entry = {e1, e2, e3}
    NoEntry = NoEntry
    Word = 12
    MaxDelay = 3
    MaxLate = 1
INVARIANTS LinkedOnce OrderedByDeadline
PROPERTIES NeverEarly EventuallyRun
