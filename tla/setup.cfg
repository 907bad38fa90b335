SPECIFICATION Spec
CONSTANTS
    None = None
    Configs <- MCConfigs
INVARIANTS
    TypeOK
    HostKept
    HostUnchanged
    NeverRefused
    OldRootGone
    PathsProtected
    DevComplete
    ProgramAfterHooks
    NoHookLeft
    NamespacesAsAsked
    HostnameIsOwn
PROPERTIES
    PhasesEnd
CHECK_DEADLOCK FALSE
