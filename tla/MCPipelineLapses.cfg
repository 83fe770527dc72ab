\* One version of the paper; upstream failures, and leases that lapse under live workers.
SPECIFICATION Spec
CONSTANTS
    Workers = {w1, w2}
    Kinds <- MCKinds
    Nobody = nobody
    NoJob = noJob
    MaxAttempts <- MCMaxAttempts
    LeaseTicks = 1
    BackoffTicks = 0
    Retried = {"prepare_document", "index_chat", "resolve_connections"}
    MaxGeneration = 1
    Failures = {"retryable", "terminal"}
    LeasesMayLapse = TRUE
    MaxCrashes = 0
SYMMETRY Symmetry
INVARIANTS
    TypeOK
    CapabilityOrder
    SucceededIsPublished
    RemainingWorkIsKept
