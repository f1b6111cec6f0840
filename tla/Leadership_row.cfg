SPECIFICATION FairLeadSpec
CONSTANTS
    n1 = n1
    n2 = n2
    n3 = n3
    Node = {n1, n2, n3}
    NoLeader = NoLeader
    Lease = 1
    MaxTerm = 3
INVARIANT LeadTypeOK
INVARIANT OneLeaderPerTerm
INVARIANT BelieversBehindRow
INVARIANT NobodyLeadsAfterResignation
PROPERTY LiveLeaseIsSafe
PROPERTY NoResurrection
PROPERTY ImplementsElection
PROPERTY LeaderlessEnds
