SPECIFICATION FairSpec
CONSTANTS
    s1 = s1
    s2 = s2
    Sessions = {s1, s2}
    Builders = {s2}
    Users = {s1}
    XServers = {s1}
    Solid <- MostlySolid
    Faulty <- AnyFault
    ParentKillable = {}
    ChildKillable = {s1}
    Codes = {0, 1}
    MaxTasks = 1
INVARIANT TypeOK
INVARIANT NoStrayDirs
INVARIANT OutOfScopeUnmounted
PROPERTY SessionEnds
