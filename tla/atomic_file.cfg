SPECIFICATION Spec
CONSTANTS
    w1 = w1
    w2 = w2
    n1 = n1
    n2 = n2
    n3 = n3
    v1 = v1
    v2 = v2
    Target = Target
    Absent = Absent
    Writers <- MCWriters
    Names <- MCNames
    Values <- MCValues
SYMMETRY MCSymmetry
INVARIANTS
    TypeOK
    NeverTorn
PROPERTIES
    ImplementsRegister
