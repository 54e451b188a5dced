SPECIFICATION Spec
CONSTANTS
    p1 = p1
    p2 = p2
    f1 = f1
    f2 = f2
    Caller = {p1, p2}
    Factory = {f1, f2}
    FixedPort = TRUE
    WaitsForConnections = TRUE
    MaxServers = 3
    MaxTasks = 5
    MaxClients = 2
INVARIANT
    StoppedMeansNoTasks
