CONSTANTS
    Targets = 5
    Limits <- AnyLimit
    Interval = 3
    Timeout = 3
SPECIFICATION FairSpec
INVARIANTS
    LivelyLoopIsNotStale
    AgeIsBounded
PROPERTY KeepsPublishing
