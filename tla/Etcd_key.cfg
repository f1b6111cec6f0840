SPECIFICATION FairEtcdSpec
CONSTANTS
    n1 = n1
    n2 = n2
    n3 = n3
    Node = {n1, n2}
    MaxRev = 4
CHECK_DEADLOCK FALSE
INVARIANT EtcdTypeOK
INVARIANT OneLeaderPerTerm
INVARIANT LiveKeyIsNewest
PROPERTY ImplementsElection
PROPERTY LeaderReturns
