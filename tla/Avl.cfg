SPECIFICATION Spec
CONSTANTS
    NULL = NULL
    NoSm = NoSm
    Sm = {s1}
    Key <- Twelve
INVARIANTS Balanced VisitsInOrder LookupIsMap
