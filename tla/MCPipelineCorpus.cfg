\* A lease lapses under a live prepare job: its replay empties the chat corpus.
SPECIFICATION Spec
CONSTANTS
    Workers = {w1, w2}
    Kinds <- MCKinds
    Nobody = nobody
    NoJob = noJob
    MaxAttempts <- MCMaxAttempts
    LeaseTicks = 1
    BackoffTicks = 0
    Retried = {"prepare_document", "index_chat", "resolve_connections"}
    MaxGeneration = 1
    Failures = {}
    LeasesMayLapse = TRUE
    MaxCrashes = 0
INVARIANTS
    ChatHasCorpus
