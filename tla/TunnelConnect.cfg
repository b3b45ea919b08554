SPECIFICATION Spec
CONSTANTS
    c1 = c1
    c2 = c2
    c3 = c3
    u1 = u1
    u2 = u2
    i1 = i1
    i2 = i2
    Connects <- MCThreeConnects
    Users <- MCTwoUsers
    Instances <- MCTwoInstances
    MAX_GEN = 2
    MAX_OPS = 3
SYMMETRY Symmetry
INVARIANTS TypeOK OneServing SameGen OnlyMissedLinger RevokedIsClosed
CHECK_DEADLOCK FALSE
