\* Retryable failures only: a row that no reader can decode.
SPECIFICATION Spec
CONSTANTS
    Workers = {w1, w2}
    Kinds <- MCKinds
    Nobody = nobody
    NoJob = noJob
    MaxAttempts <- MCMaxAttempts
    LeaseTicks = 1
    BackoffTicks = 0
    Retried = {"prepare_document", "index_chat", "resolve_connections"}
    MaxGeneration = 1
    Failures = {"retryable"}
    LeasesMayLapse = FALSE
    MaxCrashes = 0
INVARIANTS
    StageMatchesCapabilities
