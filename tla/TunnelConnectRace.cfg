SPECIFICATION Spec
CONSTANTS
    c1 = c1
    c2 = c2
    c3 = c3
    u1 = u1
    u2 = u2
    i1 = i1
    i2 = i2
    Connects <- MCTwoConnects
    Users <- MCOneUser
    Instances <- MCOneInstance
    MAX_GEN = 2
    MAX_OPS = 4
SYMMETRY Symmetry
INVARIANTS RaceClosed
CHECK_DEADLOCK FALSE
