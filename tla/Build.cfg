SPECIFICATION FairSpec
CONSTANTS
    b1 = b1
    b2 = b2
    None = None
    Builds = {b1, b2}
    Packages = {"lib", "app", "comma", "rpm", "tar"}
    Kind <- MCKind
    Needs = {"lib", "app"}
    BadDeps = {"comma"}
    Lists <- MCLists
    Updates = 1
    Codes = {2}
    MaxFaults = 1
    Killable = {b1}
INVARIANT TypeOK
 
INVARIANT ZeroMeansBuilt
INVARIANT DependsAccounted
INVARIANT LoserHasWinner
PROPERTY BuildEnds
