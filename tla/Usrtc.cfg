SPECIFICATION Spec
CONSTANTS
    Node <- MCNode
    KeyOf <- KeyPairs
    Kinds = {"list", "bst", "redblack", "splay", "avl"}
INVARIANTS
    TypeOK
    WellLinked
    SearchExact
    InBalance
PROPERTIES
    IsSortedBag
CHECK_DEADLOCK FALSE
