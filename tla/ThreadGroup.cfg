SPECIFICATION FairSpec
CONSTANTS
    h1 = h1
    h2 = h2
    h3 = h3
    Threads = {h1, h2, h3}
    Leader = h1
    Starters = {h1, h2}
INVARIANT TeardownSafe
PROPERTY TeardownEnds
CHECK_DEADLOCK FALSE
