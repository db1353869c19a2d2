CONSTANTS
    Node <- MCNode
    Key <- MCKey
    Nil = Nil
SPECIFICATION RbSpec
INVARIANTS
    FindsSleepers
    RedBlack
