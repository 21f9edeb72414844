SPECIFICATION Spec
CONSTANTS
    c1 = c1
    c2 = c2
    c3 = c3
    m = m
    b = b
    d = d
    e = e
    f = f
    g = g
    Commits <- MCCommits
    Merges <- MCMerges
    Parts <- MCParts
    Base <- MCBase
    Own <- MCOwn
    Shared <- MCShared
    Dir <- MCDir
    BatchSize = 1
    MaxStops = 2
    MaxFailures = 1
INVARIANTS HeldIsPinned WriteAhead
PROPERTY Atomic
