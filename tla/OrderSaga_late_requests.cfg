SPECIFICATION Spec
CONSTANTS
    PaymentPod = {p1}
    MaxAttempts <- FewAttempts
    Injected = {"transient", "error"}
    None = None
INVARIANT
    EarlierStepsUndone
