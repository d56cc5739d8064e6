CONSTANTS
    InvalidUTF8 = {"bad 1", "bad 2"}
    Relative = {"m"}
    Braced = {"/met{rics", "/metrics/{id}"}
    Wildcards = {"/metrics/{id}"}
    Spaced = {"/a b"}
    Disguised = {"/%68ealth"}
    Inputs <- SomeInputs
    Budget = 2
SPECIFICATION FairSpec
CHECK_DEADLOCK FALSE
INVARIANTS
    NoTwinSystems
    InjectionWins
    ExitTellsWhy
PROPERTIES
    StopsOnSignal
