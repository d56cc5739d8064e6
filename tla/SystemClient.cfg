CONSTANTS
    Incarnations = {1}
    Credentials <- AnyCredentials
    Answers <- AnyAnswer
    Cooldown = 2
SPECIFICATION FairSpec
INVARIANTS
    NoFlapping
    LockoutBudget
    AlternateNeverPrimes
PROPERTIES
    CallsReturn
    Recovers
