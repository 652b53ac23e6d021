SPECIFICATION Spec
CONSTANTS
    Unset = Unset
    Starts <- NotKnown
    Effects <- None
    Sets <- NoPost
    Knowns <- Unknown
    Grammar <- Simple
    InCondition <- Inside
    Conds <- WithStmt
    LoopConds <- Leaves
    CaseValues <- Values
    MaxNodes = 4
INVARIANTS Sound FakeIsCurrent
