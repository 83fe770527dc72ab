\* Safety and convergence: a phone and a peer, two papers, three operations.
SPECIFICATION FairSpec
CONSTANTS
    Papers = {p1, p2}
    Devices = {d1, d2}
    Peers = {d2}
    Touches <- MCTouches
    PhonePapers = {p1}
    MaxOperations <- MCMaxOperations
    PhoneOperations = 1
    PeerOperations = 2
    PageSize = 1
    NoOperation = NoOperation
CHECK_DEADLOCK FALSE
INVARIANTS
    TypeOK
    CheckpointHonest
    ShownIsExplained
PROPERTIES
    ImplementsLog
    PhonesConverge
