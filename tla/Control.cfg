SPECIFICATION Spec
CONSTANTS
    Unset = Unset
    Starts <- Known
    Effects <- None
    Sets <- NoSet
    Knowns <- AnyKnown
    Grammar <- Control
    InCondition <- Nothing
    Conds <- Leaves
    LoopConds <- LoopLeaves
    CaseValues <- OneValue
    MaxNodes = 4
INVARIANTS TypeOK StacksBalanced Sound
