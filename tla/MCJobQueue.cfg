\* One kind of job with a retry, in two generations, and a lease of two ticks.
SPECIFICATION QFairSpec
CONSTANTS
    Workers = {w1, w2}
    Kinds = {chat}
    Retried = {chat}
    MaxAttempts <- MCMaxAttempts
    MaxGeneration = 2
    LeaseTicks = 2
    BackoffTicks = 2
    Nobody = nobody
    NoJob = noJob
INVARIANTS
    QTypeOK
    LeaseDiscipline
PROPERTIES
    SettledByHolder
    ImplementsLogicalJobs
    EventuallySettled
