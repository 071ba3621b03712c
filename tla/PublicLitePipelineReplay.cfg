SPECIFICATION PipelineSpec
CONSTANTS
    Channels = {c1}
    Invocations = {i1}
    DispatchAttempts = 2
    MaxCrashes = 0
    Duplicates = FALSE
    Triggers = {}
    Reconciler = reconciler
    ProviderEvents = {p1}
    CompletionTimes = {z1}
    ChildAttempts = 1
    MaxCutOffs = 0
INVARIANT ReplayConverges
CHECK_DEADLOCK FALSE
