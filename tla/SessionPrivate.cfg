SPECIFICATION Spec
CONSTANTS
    s1 = s1
    s2 = s2
    Sessions = {s1, s2}
    Builders = {}
    Users = {s1, s2}
    XServers = {}
    Solid <- DistroSolid
    Faulty = {}
    ParentKillable = {}
    ChildKillable = {}
    Codes = {0, 1}
    MaxTasks = 1
INVARIANT MountsIntact
SYMMETRY Symmetry
