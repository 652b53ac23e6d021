SPECIFICATION Spec
CONSTANTS
    Programs <- OptimizePrograms
    Inputs <- TwoInputs
INVARIANTS
    SameBehaviour
    FlowConsistent
    DominatorsRight
    FrontierRight
    DefsDominateUses
    LivenessRight
PROPERTY Terminates
CHECK_DEADLOCK FALSE
