SPECIFICATION Spec
CONSTANTS
    c1 = c1
    None = None
    Copiers = {c1}
    Dsc = TRUE
    Last = 2
    Size = 2
    Missing = {}
    Optional = {}
    Repo = {}
    MaxFaults = 1
    Killable = {}
INVARIANT SuccessIsComplete
