CONSTANTS
    MaxWrites = 3
    MaxHups = 2
SPECIFICATION FairSpec
PROPERTIES
    NoReloadAfterClose
    NeverBackwards
    WritesArrive
    CloseCompletes
