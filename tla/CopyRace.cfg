SPECIFICATION Spec
CONSTANTS
    c1 = c1
    c2 = c2
    None = None
    Copiers = {c1, c2}
    Dsc = TRUE
    Last = 3
    Size = 3
    Missing = {}
    Optional = {1}
    Repo = {1}
    MaxFaults = 2
    Killable = {c1, c2}
SYMMETRY Symmetry
INVARIANT TypeOK
 
INVARIANT PartialOnlyIfShared
 
INVARIANT RaceHasWinner
