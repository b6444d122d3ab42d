SPECIFICATION FairSpec
CONSTANTS
    PaymentPod = {p1}
    MaxAttempts <- SmallAttempts
    Injected = {"transient", "error", "conflict"}
    None = None
INVARIANTS
    TypeOK
    CompletedMeansEverything
    NothingHeldAfterUndo
    DeclinedNeverCharged
    NoForwardCallAfterFailure
PROPERTIES
    ImplementsLifecycle
    EveryOrderIsAnswered
