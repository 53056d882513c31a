SPECIFICATION Spec
CONSTANTS
    t1 = t1
    t2 = t2
    t3 = t3
    CPUs = {0, 1}
    Tasks = {t1, t2, t3}
    InitProc = t1
    Affinity <- AnyAffinity
    Ops = {"stop", "exit"}
    NoCpu = NoCpu
    NoTask = NoTask
INVARIANT ExitIsFinal
