SPECIFICATION MemorySpec
CONSTANTS
    MemoryParts = {"space"}
    p1 = p1
    p2 = p2
    NoOne = NoOne
    Procs = {p1, p2}
    VmTop = 5
    MmapMin = 2
    NFrames = 4
    STACK_GUARD_GAP_PAGES = 1
    VmScenarios <- VmNoAccess
    FmTasks = {1, 2}
    FmSpaces = {1, 2}
    FmFds = {1, 2}
    FmNPages = 2
    FM_PAGE = 2
    FmFrames = {1, 2, 3, 4, 5, 6}
    FmScenarios <- FmMain
    HpHarts = {1, 2}
    HpWords = 8
    HpNames = {1, 2, 3}
    MAGAZINE_MAX_ORDER = 1
    MAGAZINE_CLASS_CAPACITY = 2
    MAGAZINE_REFILL_BATCH = 2
    HpScenarios <- HpMain
    FpTasks = {1, 2}
    FP_PAGE = 4
    FpLayouts <- FpBoards
    IbTasks = {1, 2}
    IbHarts = {1, 2}
    MAX_CACHED_IO_BUFFER_SIZE = 2
    IbSizes = {1, 3}
    IbDrains = 1
    PtSpaces = {1, 2}
    PT_ROOT = 5
    KERNEL_INDEX = 2
    PtFrames = {1, 2, 3, 4, 5, 6, 7, 8, 9, 10, 11, 12}
    STACK_SLOTS = 2
    PtScenarios <- PtMain
    MfTasks = {1, 2}
    MfFds = {1, 2}
    MfProcs = {1, 2}
    MfMax = 6
    MfScenarios <- MfMain
    ShTasks = {1, 2, 3}
    shmmni = 2
    shmall = 3
    ShFrames = 4
    ShScenarios <- ShMain
INVARIANT VmasAgree
CHECK_DEADLOCK FALSE
