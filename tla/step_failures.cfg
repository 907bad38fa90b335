SPECIFICATION Spec
CONSTANTS
    r1 = r1
    r2 = r2
    i1 = i1
    i2 = i2
    i3 = i3
    p1 = p1
    p2 = p2
    None = None
    Runtimes <- MCRuntimes
    Inodes <- MCInodes
    Pids <- MCPids
    Faults <- StepFaults
    Bundles <- WithProcess
    SerialDelete = TRUE
SYMMETRY MCSymmetry
INVARIANTS
    CreatedIsReady
    RunningIsInitialised
    StoppedIsDead
