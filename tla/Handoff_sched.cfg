SPECIFICATION FairSpec
CONSTANTS
    t1 = t1
    t2 = t2
    t3 = t3
    CPUs = {0, 1}
    Tasks = {t1, t2}
    InitProc = t1
    Affinity <- MCAffinity
    Ops = {"exit"}
    NoCpu = NoCpu
    NoTask = NoTask
INVARIANT SchedulerAgrees
PROPERTY QueuedTaskRuns
