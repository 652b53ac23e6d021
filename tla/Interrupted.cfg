SPECIFICATION Spec
CONSTANTS
    Unset = Unset
    Starts <- NotKnown
    Effects <- None
    Sets <- NoSet
    Knowns <- Unknown
    Grammar <- Interrupted
    InCondition <- InlineInside
    Conds <- Mixed
    LoopConds <- Leaves
    CaseValues <- OneValue
    MaxNodes = 4
INVARIANTS StacksBalanced LiveCode DeadCode
PROPERTIES InlineTransparent
