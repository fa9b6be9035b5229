SPECIFICATION Spec
CONSTANTS
    Sessions = {s1, s2}
    NoSession = NoSession
    MaxChannels = 2
    QueueSize = 1
    MaxUses = 2
SYMMETRY SessionSymmetry
INVARIANTS
    PoolComplete
    WorkHasWorker
    CompletionNamesOwn
CHECK_DEADLOCK FALSE
