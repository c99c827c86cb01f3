SPECIFICATION Spec
CONSTANTS
    Top = 4
    Labels = 2
    ReorgDepth = 1
    ForksReturn = TRUE
    StartBlock = 1
    Confirmations = 1
    MaxReorgDepth = 3
    MaxHistory = 2
    AnyReplay = FALSE
    MaxUpsets = 3
INVARIANT NothingSkipped
PROPERTIES ImplementsScanner EveryFinalBlockScanned
