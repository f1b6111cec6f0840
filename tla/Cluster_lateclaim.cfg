SPECIFICATION ClusterSpec
CONSTANTS
    j1 = j1
    w1 = w1
    w2 = w2
    n1 = n1
    n2 = n2
    Job = {j1}
    Worker = {w1}
    Node = {n1, n2}
    Term <- MCTerm
    NoWorker = NoWorker
    NoLeader = NoLeader
    NULL = NULL
    LeaseFor = 0
    RetryDelay = 1
    MaxInterval = 2
    StatusIn = {"unset"}
    MaxRetriesIn = {1}
    Lease = 0
    MaxTerm = 3
SYMMETRY Symmetry
PROPERTY LateClaimRefused
