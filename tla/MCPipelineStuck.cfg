\* Upstream failures only: a paper shown as running with no job left.
SPECIFICATION Spec
CONSTANTS
    Workers = {w1}
    Kinds <- MCKinds
    Nobody = nobody
    NoJob = noJob
    MaxAttempts <- MCMaxAttempts
    LeaseTicks = 1
    BackoffTicks = 0
    Retried = {"prepare_document", "index_chat", "resolve_connections"}
    MaxGeneration = 1
    Failures = {"retryable", "terminal"}
    LeasesMayLapse = FALSE
    MaxCrashes = 0
INVARIANTS
    RunningStageHasLiveJob
