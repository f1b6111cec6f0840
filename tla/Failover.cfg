SPECIFICATION FailoverSpec
CONSTANTS
    n1 = n1
    n2 = n2
    s1 = s1
    Node = {n1, n2}
    Servers <- MCServers
    Stream = {s1}
    NoStream = NoStream
    NoHandler = NoHandler
    MaxTerm = 2
INVARIANT FailoverTypeOK
PROPERTY ShutdownCompletes
PROPERTY DeposedServesNobody
PROPERTY WorkerFindsLeader
