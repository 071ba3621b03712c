SPECIFICATION RetentionSpec
CONSTANTS
    Runs = {1, 2}
    Channels = {a, b}
    Networks = {"n1"}
    Clients = {"c1"}
    ClientOf <- MCClientOf
    Cleaners = {k1, k2}
    Limit = 1
    Window = 2
    Lifetime = 1
    ScanLimit = 2
    ProcessLimit = 1
    BatchSize = 1
    Horizon = 4
    MaxCommands = 1
    MaxCutOffs = 1
SYMMETRY MCSymmetry
INVARIANTS WindowLimit ChannelsHaveTheirRun
PROPERTIES OnlyExpiredRunsGo
CHECK_DEADLOCK FALSE
