SPECIFICATION MCSpec
CONSTANTS
    s1 = s1
    s2 = s2
    s3 = s3
    Sockets = {s1, s2, s3}
    PolicyFiles <- MCPolicyFiles
    Initial <- MCInitial
    LineKinds = {"valid", "drift"}
    MaxActiveSockets = 2
    MaxConnections = 1
    MaxOpen = 3
    RecentLimit = 1
    MaxLines = 2
INVARIANT SocketsBalanced
INVARIANT AllowsUnderActivatedPolicy
INVARIANT PassMeansWhole
PROPERTY ShutdownExits
CHECK_DEADLOCK FALSE
