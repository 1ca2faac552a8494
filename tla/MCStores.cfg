CONSTANTS
    c1 = c1
    c2 = c2
    Handles = {h1, h2}
    Blocks = {x, y}
    Objects = {o1, o2}
SPECIFICATION Spec
CHECK_DEADLOCK FALSE
INVARIANTS  Structures Formats
