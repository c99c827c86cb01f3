SPECIFICATION Spec
CONSTANTS
    Procs = {p1, p2, p3}
    NoFile = NoFile
    NoOwner = NoOwner
    Kills = FALSE
INVARIANT MutualExclusion
