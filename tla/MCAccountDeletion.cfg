\* Safety and liveness: two workers that may outlive their leases, one backup, one restore.
SPECIFICATION FairSpec
CONSTANTS
    Workers = {w1, w2}
    NoWorker = NoWorker
    MaxBackups = 1
    MaxRestores = 1
CHECK_DEADLOCK FALSE
INVARIANTS
    TypeOK
    CompletedIsErased
    AcceptedStaysDeleted
    PurgedIsUnrecoverable
PROPERTIES
    ErasureInOrder
    AcceptedIsErased
