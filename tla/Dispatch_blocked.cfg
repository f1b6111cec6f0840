SPECIFICATION DispatchSpec
CONSTANTS
    j1 = j1
    j2 = j2
    w1 = w1
    w2 = w2
    s1 = s1
    s2 = s2
    Job = {j1, j2}
    Worker = {w1}
    Stream = {s1}
    Term <- MCTerm
    NoWorker = NoWorker
    NoStream = NoStream
    NULL = NULL
    LeaseFor = 0
    RetryDelay = 1
    MaxInterval = 2
    StatusIn = {"unset"}
    MaxRetriesIn = {1}
    LateBeats = TRUE
    Faults = {}
    MaxInTransit = 2
INVARIANT SendNeverBlocks
