SPECIFICATION StoreSpec
CONSTANTS
    j1 = j1
    j2 = j2
    w1 = w1
    w2 = w2
    Job <- MCJob
    Worker <- MCWorker
    Term <- MCTerm
    NoWorker = NoWorker
    NULL = NULL
    LeaseFor = 1
    RetryDelay = 1
    MaxInterval = 2
    StatusIn = {"unset", "pending"}
    MaxRetriesIn <- MCMaxRetries
SYMMETRY Symmetry
INVARIANT StoreTypeOK
INVARIANT AttemptBound
INVARIANT NoAttemptSkipped
INVARIANT LeaseDiscipline
PROPERTY ClaimTermOnlyMovesUp
PROPERTY ImplementsLifecycle
