SPECIFICATION ExecSpec
CONSTANTS
    r1 = r1
    i1 = i1
    i2 = i2
    p1 = p1
    x1 = x1
    p2 = p2
    None = None
    Runtimes <- MCRuntimes
    Inodes <- MCInodes
    Pids <- MCPids
    Execs <- MCExecs
    NamespaceChoices <- MCNamespaceChoices
    Faults <- MCFaults
    Bundles <- WithProcess
    SerialDelete = TRUE
SYMMETRY MCSymmetry
INVARIANTS
    ExecTypeOK
    
    ExecEndsWithContainer

    
