SPECIFICATION ChannelsSpec
CONSTANTS
    ChannelsParts = {"pipe", "unix", "tcp", "udp", "events"}
    PiTasks = {t1, t2, t3}
    PIPE_BUF = 2
    Capacities = {2, 4}
    PipeScenarios <- PiMain
    UsTasks = {1, 2, 3}
    UNIX_SOCKET_BUFFER_LIMIT = 2
    UNIX_LISTEN_QUEUE_LIMIT = 1
    UsScenarios <- UsMain
    TcpTasks = {1, 2, 3}
    TcpSocks = {1, 2, 3}
    NHandles = 5
    TCP_BUF = 1
    TcpScenarios <- TcpMain
    UdTasks = {1, 2, 3}
    UdSocks = {1, 2, 3}
    UDP_QUEUE = 2
    KERNEL_BUF = 1
    UdScenarios <- UdMain
    EfTasks = {1, 2, 3}
    EfScenarios <- EfMain
    CounterMax = 3
INVARIANTS
    PipesServe
    UnixSocketsServe
    InetServes
    EventsServed
PROPERTIES
    ImplementsByteQueue
CHECK_DEADLOCK FALSE
