SPECIFICATION Spec
CONSTANTS
    p1 = p1
    p2 = p2
    Procs = {p1, p2}
    None = None
    StartMayFail = FALSE
    Signals = {}
    Killable = {}
INVARIANT LastOutStops
SYMMETRY Symmetry
