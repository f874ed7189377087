SPECIFICATION Spec
CONSTANTS
    u1 = u1
    u2 = u2
    u3 = u3
    b1 = b1
    b2 = b2
    b3 = b3
    Users = {u1, u2, u3}
    Main = Main
    Blocks = {b1, b2, b3}
    Size <- SmallOrHuge
    MaxSize = 3
    NumSlots = 3
    Lives = 2
    Env = {}
INVARIANTS OwnSlots
PROPERTIES VerdictExact
CHECK_DEADLOCK FALSE
