\* Violation: an import moves the checkpoint over another device's change.
SPECIFICATION ISpec
CONSTANTS
    Papers = {p1, p2}
    Devices = {d1, d2}
    Peers = {d2}
    Operations = 1
    Touches <- MCTouches
    MaxOperations <- MCMaxOperations
    PageSize = 1
    NoOperation = NoOperation
CHECK_DEADLOCK FALSE
INVARIANT
    CheckpointHonestWithImports
