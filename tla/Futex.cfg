SPECIFICATION Spec
CONSTANTS
    w1 = w1
    w2 = w2
    w3 = w3
    A = A
    B = B
    NoTask = NoTask
    NoKey = NoKey
    Waiters = {w1, w2, w3}
    Keys = {A, B}
    Requeues <- AtoB
    Scenarios <- MainScenarios
    MaxInflight = 1
SYMMETRY WaiterSymmetry
INVARIANTS
    SleeperReachable
    NoLostWake
    SignalReachesSleeper
    CountedWakeSucceeds
