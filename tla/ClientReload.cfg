CONSTANTS
    Incarnations = {1, 2}
    Credentials <- AnyCredentials
    Answers <- PasswordRefused
    Cooldown = 1
    Configs <- TargetConfigs
    FirstConfig <- OldTarget
SPECIFICATION RFairSpec
INVARIANTS
    CooldownBelongsToCredential
    QuietReloadCostsNoLogin
PROPERTIES
    ReloadCompletes
    RecoversAfterReload
