SPECIFICATION AuditorSpec
CONSTANTS
    Length = 5
    MaxIter = 2
    MaxRows = 3
    Null = Null
    Blocks <- MCBlocks
    Programs <- MCPrograms
    Audits <- MCAudits
    RuleLists <- MCRuleLists
    Names <- MCNames
INVARIANTS EdgesCoverExecution DominatorsSound DominatorsExact LoopsNest MatchesAreChains ReportedIffExposed EvidenceNeverPromotes
CHECK_DEADLOCK FALSE
