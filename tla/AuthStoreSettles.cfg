SPECIFICATION FairSpec
CONSTANTS
    codex = codex
    copilot = copilot
    a1 = a1
    a2 = a2
    Free = Free
    Dead = Dead
    Nothing = Nothing
    Procs <- MCProcs
    Providers <- MCProviders
    Rotating <- MCRotating
    MaxTies = 1
    MaxLogins = 1
    MaxTokens = 2
CHECK_DEADLOCK FALSE
PROPERTY Settles
