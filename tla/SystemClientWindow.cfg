CONSTANTS
    Incarnations = {1}
    Credentials <- PasswordOnly
    Answers <- AnyAnswer
    Cooldown = 2
SPECIFICATION Spec
INVARIANT OneRejectionPerWindow
