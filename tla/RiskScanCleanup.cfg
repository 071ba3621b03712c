SPECIFICATION FairRetentionSpec
CONSTANTS
    Runs = {1, 2, 3}
    Channels = {a, b}
    Networks = {"n1"}
    Clients = {"c1", "c2"}
    ClientOf <- MCClientOf
    Cleaners = {k1}
    Limit = 3
    Window = 2
    Lifetime = 1
    ScanLimit = 2
    ProcessLimit = 1
    BatchSize = 1
    Horizon = 2
    MaxCommands = 1
    MaxCutOffs = 1
INVARIANTS RetainedRunsAreWhole
PROPERTIES TerminalRunsGo
CHECK_DEADLOCK FALSE
