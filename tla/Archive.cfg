SPECIFICATION Spec
CONSTANTS
    p1 = p1
    p2 = p2
    None = None
    Old = Old
    Src = Src
    Procs = {p1, p2}
    Names = {"changes", "dsc", "tar"}
    Listed <- MCListed
    Jobs <- MCJobs
    Origins = {{"changes", "dsc", "tar"}, {"changes", "dsc"}}
    Archives = {{}, {"changes", "dsc", "tar"}}
    MaxRuns = 2
    Killable = {p1, p2}
    Faulty = {p1, p2}
    Texts = {"", "stretch", "all", "stable", "debian", "debian: sid", ": none"}
    Cut <- MCCut
    Sayings <- MCSayings
SYMMETRY Symmetry
INVARIANT TypeOK
INVARIANT NothingLost
INVARIANT ArchivedWhole
INVARIANT MoveKeepsOrder
INVARIANT RemovedInOrder
INVARIANT ReleaseKept
