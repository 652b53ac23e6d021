SPECIFICATION Spec
CONSTANTS
    Programs <- StorePrograms
    Inputs <- TwoInputs
INVARIANT SameBehaviour
CHECK_DEADLOCK FALSE
