SPECIFICATION Spec
CONSTANTS
    None = None
    Caps <- MCCaps
    Known <- MCKnown
    Names <- MCNames
    Hosts <- MCHosts
    Requests <- MCRequests
CHECK_DEADLOCK FALSE
INVARIANTS
    TypeOK
    
    FilterAsRequested
PROPERTIES
    GrantableIsGranted
