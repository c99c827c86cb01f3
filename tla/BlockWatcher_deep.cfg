SPECIFICATION Spec
CONSTANTS
    Top = 4
    Labels = 2
    ReorgDepth = 4
    ForksReturn = FALSE
    StartBlock = 1
    Confirmations = 1
    MaxReorgDepth = 2
    MaxHistory = 3
    AnyReplay = TRUE
    MaxUpsets = 2
INVARIANTS HistoryOneBranch LastIsRemembered
