---------------------------- MODULE MCAuthStore ----------------------------
EXTENDS AuthStore, TLC
CONSTANTS codex, copilot, a1, a2
MCProviders == {codex, copilot}
MCRotating == {codex}
MCProcs == {a1, a2}
Symmetry == Permutations(MCProcs)
=============================================================================
