SPECIFICATION CtlSpec
CONSTANTS
    Procs = {p1, p2}
    NoFile = NoFile
    NoOwner = NoOwner
    NoProc = NoProc
    Kills = TRUE
INVARIANTS OneKnownRunner ControlProtectsState LockOutlivesControl LiveRunnerIsPolled
PROPERTIES StopEnds VictimDies
