SPECIFICATION Spec
CONSTANTS
    Unset = Unset
    Starts <- NotKnown
    Effects <- BothOrNone
    Sets <- NoPost
    Knowns <- Unknown
    Grammar <- Expressions
    InCondition <- Assignment
    Conds <- Nested
    LoopConds <- LoopLeaves
    CaseValues <- Values
    MaxNodes = 2
INVARIANTS StacksBalanced Sound
