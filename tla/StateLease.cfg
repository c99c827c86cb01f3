SPECIFICATION Spec
CONSTANTS
    Procs = {p1, p2, p3}
    NoFile = NoFile
    NoOwner = NoOwner
    Kills = TRUE
INVARIANTS SerialExclusion CompleteLockNamesOwner
PROPERTIES TakeoverSucceeds RefusedRightly
