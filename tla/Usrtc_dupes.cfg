SPECIFICATION Spec
CONSTANTS
    Node <- MCNode
    KeyOf <- KeyPairs
    Kinds = {"splay"}
INVARIANT
    NoDuplicates
CHECK_DEADLOCK FALSE
