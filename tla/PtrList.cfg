SPECIFICATION Spec
CONSTANTS
    Entry = {e1, e2, e3, e4, e5}
    NIL = NIL
    MaxBlocks = 4
    LIST_NODE_NR = 3
    Kinds = {"stack", "list", "users"}
SYMMETRY Symmetry
INVARIANTS TypeOK QueriesAgree AllVisited
PROPERTIES ListSpec
