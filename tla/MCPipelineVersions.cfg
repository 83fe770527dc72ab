\* A newer version arrives at any moment, a worker dies at any step; heartbeats in time.
SPECIFICATION FairSpec
CONSTANTS
    Workers = {w1, w2}
    Kinds <- MCKinds
    Nobody = nobody
    NoJob = noJob
    MaxAttempts <- MCMaxAttempts
    LeaseTicks = 1
    BackoffTicks = 0
    Retried = {"prepare_document", "index_chat", "resolve_connections"}
    MaxGeneration = 2
    Failures = {}
    LeasesMayLapse = FALSE
    MaxCrashes = 1
INVARIANTS
    ChatHasCorpus
PROPERTIES
    ImplementsPreparation
    StaleWorkIsInert
    RequestedBecomesReady
