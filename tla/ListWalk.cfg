CONSTANTS
    Conns = {c1, c2, c3, c4}
    Sockets = {5, 6, 7}
    NULL = NULL
    T_MAX = 3
SYMMETRY Alike
SPECIFICATION Spec
INVARIANTS DistinctSockets WalkBounded
PROPERTY ListSpec
CHECK_DEADLOCK FALSE
