SPECIFICATION Spec
CONSTANTS
    c1 = c1
    c2 = c2
    b1 = b1
    b2 = b2
    None = None
    Containers <- MCContainers
    Bundles <- MCBundles
SYMMETRY MCSymmetry
INVARIANTS
    TypeOK
    CreatedIsReachable
    ListComplete
    ListTruthful
