SPECIFICATION PipelineSpec
CONSTANTS
    Channels = {c1}
    Invocations = {i1, i2}
    DispatchAttempts = 2
    MaxCrashes = 1
    Duplicates = TRUE
    Triggers = {}
    Reconciler = reconciler
    ProviderEvents = {p1}
    CompletionTimes = {z1}
    ChildAttempts = 1
    MaxCutOffs = 1
INVARIANTS DispatchedIsBacked ResultsBelongToAcquiringRuns
PROPERTY ImplementsHandoff
CHECK_DEADLOCK FALSE
