SPECIFICATION Spec
CONSTANTS
    Top = 4
    Labels = 2
    ReorgDepth = 2
    ForksReturn = FALSE
    StartBlock = 1
    Confirmations = 1
    MaxReorgDepth = 3
    MaxHistory = 2
    AnyReplay = FALSE
    MaxUpsets = 0
INVARIANT ToleratedReorgLosesNothing
