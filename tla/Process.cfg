SPECIFICATION ProcessSpec
CONSTANTS
    ProcessParts = {"clone", "image", "traps", "signals", "console", "jobs", "attributes", "queues", "timers", "clock"}
    CxTasks = {1, 2, 3, 4}
    CxLocks = {1, 2}
    CxScenarios <- CxMain
    PAGE_SIZE = 4096
    WORD = 8
    STACK_ALIGN = 16
    USER_STACK_SIZE = 8388608
    PIE_LOAD_OFFSET = 4194304
    DL_INTERP_OFFSET = 536870912
    RANDOM_BYTES = 16
    PLATFORM_LEN = 8
    ELF64_HEADER_SIZE = 64
    ELF64_PROGRAM_HEADER_SIZE = 56
    ELF_METADATA_LIMIT = 1048576
    ELF_INTERP_LIMIT = 4096
    ImgInputs <- ImgMain
    TpThreads = {1, 2}
    TP_PAGE = 8
    TpLastPage = 5
    KERNEL_PAGE = 4
    CSTR_CHUNK = 3
    USER_CSTR_MAX_LEN = 9
    USER_ARG_STR_MAX_LEN = 5
    USER_ARG_MAX_COUNT = 2
    USER_ARG_MAX_BYTES = 7
    TpScenarios <- TpMain
    SgThreads = {1, 2}
    SgSenders = {3, 4}
    SIGS = {9, 10, 15, 17, 18, 19, 34}
    SgScenarios <- SgMain
    CnTasks = {1, 2}
    CnScenarios <- CnMain
    JcProcs = {1, 2, 3, 4}
    JcScenarios <- JcMain
    AtThreads = {1, 2, 3, 4}
    AtProcs = {1, 2, 3}
    AtScenarios <- AtMain
    q1 = q1
    q2 = q2
    q3 = q3
    RqTasks = {q1, q2, q3}
    Tgid <- MCTgid
    RtMax = 2
    NormalMax = 1
    NoReady = NoReady
    NoQueue = NoQueue
    TmTasks = {1, 2}
    TmScenarios <- TmMain
    UsPerMs = 2
    TICK_US = 4
    TASK_TIMER_ADVANCE_US = 1
    CkThreads = {1, 2}
    CkHarts = {1, 2}
    CkHorizon = 1
    CkRuns <- OnceEach
    USIZE = 16
INVARIANTS
    ProgramsStart
    TrapsContained
    SignalsServed
    TerminalOrdered
    AttributesKept
    ClocksServe
PROPERTIES
    RefinesPriorityQueues
CHECK_DEADLOCK FALSE
