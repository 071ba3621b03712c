SPECIFICATION FairExecutionSpec
CONSTANTS
    Channels = {c1}
    Invocations = {i1}
    MaxAttempts = 3
    MaxCrashes = 3
    Duplicates = FALSE
PROPERTIES Settles
CHECK_DEADLOCK FALSE
