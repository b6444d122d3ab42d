SPECIFICATION Spec
CONSTANTS
    InventoryOutcomes = {"ok", "rejected", "error", "timeout", "open"}
    FraudOutcomes = {"ok", "rejected", "timeout"}
    PaymentOutcomes = {"ok", "slow", "late", "timeout", "busy", "open", "rejected"}
    ShippingOutcomes = {"ok", "error", "timeout", "unreached", "refused"}
    UndoOutcomes = {"ok", "timeout"}
    MaxTrouble = 4
    Restarts = 1
    Steps <- MCSteps
    Kinds = {"normal-order", "kong-rate-limit", "rolling-restart", "readiness-loss", "replica-degradation", "pod-deletion",
             "oversized-request", "payment-timeout", "auth-denied", "traffic-spike"}
    Driven <- MCDriven
    Scale = 2
    MaxCarried = 1
INVARIANTS
    TypeOK
    AcceptedMeansTrue
    TruthfulTraceAccepted
    TrafficAsPlanned
    PassedMeansTrue
CHECK_DEADLOCK FALSE
