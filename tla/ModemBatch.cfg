SPECIFICATION Spec
CONSTANTS
    m1 = m1
    m2 = m2
    a = a
    b = b
    p = p
    None = None
    Modem <- TwoModems
    Node <- TwoNodes
    Phone <- OnePhone
    PhoneOf <- Numbers
    o1 = o1
    o2 = o2
    o3 = o3
    Operator <- AllOperators
    Operators <- FirstO1
    QueueCap = 1
    MaxClosings = 2
SYMMETRY ModemSymmetry
INVARIANTS OneCallPerPhone SequenceSound NoneForgotten WaitWakes
CHECK_DEADLOCK FALSE
