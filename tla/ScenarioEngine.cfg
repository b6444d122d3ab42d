SPECIFICATION Spec
CONSTANTS
    Run = {"r1", "r2"}
    Reset = {"x"}
    Verify = {"v"}
    Workload = {"payment", "shipping"}
    Baseline <- MCBaseline
    Scenarios <- MCScenarios
    Issued <- MCIssued
    ResetBesideRun = FALSE
    None = "none"
INVARIANTS
    TypeOK
    ChangesRecoverable
    CleanStart
PROPERTY
    LockReleased
CHECK_DEADLOCK FALSE
