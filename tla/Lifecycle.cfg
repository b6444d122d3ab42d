SPECIFICATION Spec
CONSTANTS
    Command = {a, b}
    Components <- MCComponents
    Selections <- MCSelections
    HelmTimeout = 1
    StaleAfter = 2
    MaxKeys = 9
    MaxMishaps = 2
    MaxSources = 2
    None = None
INVARIANTS
    TypeOK
    HelmAlone
    SuccessMeansDeployed
CONSTRAINT Unmixed
SYMMETRY CommandSymmetry
CHECK_DEADLOCK FALSE
