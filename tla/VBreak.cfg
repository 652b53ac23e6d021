SPECIFICATION Spec
CONSTANTS
    Unset = Unset
    Starts <- NotKnown
    Effects <- None
    Sets <- NoSet
    Knowns <- Unknown
    Grammar <- Control
    InCondition <- InsideBreak
    Conds <- WithStmt
    LoopConds <- LoopLeaves
    CaseValues <- Nothing
    MaxNodes = 3
INVARIANTS StacksBalanced
