CONSTANTS
    Callers = {c1, c2, c3}
    MaxDos = 1
SPECIFICATION FairSpec
INVARIANTS
    AtMostOneLogin
    NoOrphanWaiter
    LoginsAreJustified
    GenerationNamesOneToken
PROPERTIES
    DoReturns
    ImplementsSingleFlight
