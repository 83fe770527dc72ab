\* One request at a time, two workers, two attempts, one change of the account.
SPECIFICATION Spec
CONSTANTS
    Clients = {c1}
    Workers = {w1, w2}
    NoWorker = NoWorker
    NoProfile = NoProfile
    NoContent = NoContent
    MaxAttempts = 2
    MaxChanges = 1
CHECK_DEADLOCK FALSE
SYMMETRY Symmetry
INVARIANTS
    TypeOK
    ReadyIsCurrent
    BuiltAsLabelled
    CompletedIsPublished
PROPERTIES
    PagesAreCurrent
    BatchesAreImmutable
