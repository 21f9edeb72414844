SPECIFICATION Spec
CONSTANTS
    codex = codex
    copilot = copilot
    a1 = a1
    a2 = a2
    Free = Free
    Dead = Dead
    Nothing = Nothing
    Procs <- MCProcs
    Providers <- MCProviders
    Rotating <- MCRotating
    MaxTies = 1
    MaxLogins = 2
    MaxTokens = 3
CHECK_DEADLOCK FALSE
INVARIANTS AccountIsTheUsers LastTokenIsKept
SYMMETRY Symmetry
