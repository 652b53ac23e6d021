SPECIFICATION Spec
CONSTANTS
    VarOrder <- TwoVars
    Values <- ThreeValues
    Assigned <- Sets
    Tests <- Equalities
    Limits <- LowHigh
    RecurseLimit = 4
    Clocks <- InTimeOrLate
    MaxSteps = 5
    MaxDepth = 2
CHECK_DEADLOCK FALSE
INVARIANTS Sound Precise HistoriesFit SplitCovers
