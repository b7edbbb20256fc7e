SPECIFICATION Spec
CONSTANTS
    s1 = s1
    s2 = s2
    Sessions = {s1, s2}
    Builders = {s2}
    Users = {s1}
    XServers = {}
    Solid <- DistroSolid
    Faulty = {}
    ParentKillable = {s1, s2}
    ChildKillable = {}
    Codes = {0, 1}
    MaxTasks = 1
INVARIANT LoneSucceeds
INVARIANT SolidMountsKept
