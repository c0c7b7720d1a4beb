SPECIFICATION Spec
CONSTANTS
    u1 = u1
    u2 = u2
    c1 = c1
    c2 = c2
    c3 = c3
    Users = {u1, u2}
    Cmds = {c1, c2, c3}
    Owner <- MCOwner
    None = None
    MaxPresses = 3
    MaxBoots = 2
CHECK_DEADLOCK FALSE
INVARIANTS
    YesRunsItsCommand
