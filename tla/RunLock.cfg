SPECIFICATION Spec
CONSTANTS
    Process = {p1, p2, p3}
    MaxWrites = 4
    None = None
SYMMETRY ProcessSymmetry
INVARIANTS
    TypeOK
    MutualExclusion
PROPERTY
    FreshLeaseKeepsHolder
