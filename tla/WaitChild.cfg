SPECIFICATION Spec
CONSTANTS
    c1 = c1
    c2 = c2
    w1 = w1
    w2 = w2
    Children = {c1, c2}
    Waiters = {w1, w2}
    Parent = Parent
    InitProc = InitProc
    Kill = Kill
    Selections <- AllChildren
    Scenarios <- MainScenarios
SYMMETRY WaiterSymmetry
INVARIANTS
    NoMissedZombie
    ReapedOnce
CHECK_DEADLOCK FALSE
