SPECIFICATION Spec
CONSTANTS
    Conns = {c1, c2}
    Streams = {s1, s2}
    MaxRead = 2
    None = None
SYMMETRY Symmetry
INVARIANTS ResponsesWhole ReferencesTrue NotForgotten
CHECK_DEADLOCK FALSE
