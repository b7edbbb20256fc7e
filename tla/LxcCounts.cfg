SPECIFICATION Spec
CONSTANTS
    p1 = p1
    p2 = p2
    p3 = p3
    Procs = {p1, p2, p3}
    None = None
    StartMayFail = TRUE
    Signals = {"SIGINT", "SIGTERM"}
    Killable = {p1}
INVARIANT TypeOK
INVARIANT CountNeverOver
INVARIANT CountConserved
INVARIANT SemWaitNeverBlocks
INVARIANT AbandonedOnlyByFailure
PROPERTY StopDecision
CHECK_DEADLOCK FALSE
