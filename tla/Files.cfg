SPECIFICATION FilesSpec
CONSTANTS
    FilesParts = {"fds", "names", "transfer", "inodes", "devices", "cache", "disk", "card"}
    FdTasks = {1, 2, 3}
    FdTables = {1, 2, 3, 4}
    FTB_RLIMIT = 4
    MAXOFF = 3
    FdScenarios <- FdMain
    NmTasks = {1, 2}
    DENTRY_CACHE_CAPACITY = 3
    MAX_SYMLINK_FOLLOWS = 3
    NmScenarios <- NmMain
    TrTasks = {1, 2, 3}
    TrEnds = {"f", "g", "p", "q"}
    IO_CHUNK_SIZE = 3
    ATOMIC_WRITE = 2
    TrScenarios <- TrMain
    ImTasks = {1, 2, 3}
    ImInodes = {1, 2}
    LAZYTIME_BACKGROUND_BATCH = 1
    ATIME_STALE = 3
    LAZYTIME_RETRY = 2
    ImMaxNow = 16
    ImScenarios <- ImMain
    DnTasks = {1, 2}
    DnNames = {1, 2}
    DnFiles = {1, 2}
    DnInodes = {0, 1, 2, 3, 4}
    VDA_SIZE = 1048576
    VDA2_SIZE = 307200
    VDA2_DEFAULT_FILESYSTEM_SIZE = 10240
    DN_PAGE = 4
    DnScenarios <- DnMain
    f1 = f1
    f2 = f2
    Files = {f1, f2}
    PAGE_SIZE = 2
    NUnits = 4
    NPages = 4
    WRITEBACK_BATCH_PAGES = 2
    PcScenarios <- PcMain
    BIO_BLOCK = 3
    DISK_BLOCKS = 5
    BioUsers = {1, 2}
    BIO_PAGE = 2
    PHYS_END = 36
    BioHeap = {16, 17, 18, 19, 20, 21, 22, 23, 24, 25, 26, 27, 28, 29, 30, 31, 32, 33, 34, 35}
    MAX_CACHED = 2
    MAX_CACHED_BYTES = 6
    BioScenarios <- BioMain
    SD_WORDS = 6
    FIFO_DEPTH = 4
    SdBlocks = {1, 2, 3}
    SdScenarios <- SdMain
INVARIANTS
    DescriptorsExact
    NamesHold
    TransfersExact
    MetadataReachesDisk
    CacheDurable
    DevicesExact
PROPERTIES
    NamesChange
CHECK_DEADLOCK FALSE
