CONSTANTS
    Configs <- TwoLists
    MaxConcurrent = 2
    MaxRevisions = 3
SPECIFICATION FairSpec
INVARIANTS
    NothingCarriedOver
PROPERTIES
    ReloadsArrive
    ImplementsView
