SPECIFICATION Spec
CONSTANTS
    t1 = t1
    t2 = t2
    t3 = t3
    CPUs = {0, 1}
    Tasks = {t1, t2}
    InitProc = t1
    Affinity <- AnyAffinity
    Ops = {"stop", "exit", "requeue", "terminate"}
    NoCpu = NoCpu
    NoTask = NoTask
INVARIANTS TypeOK SoleContext
PROPERTY QuiescentForever
