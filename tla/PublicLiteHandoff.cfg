SPECIFICATION FairHandoffSpec
CONSTANTS
    Executions = {e1}
    Triggers = {t1, t2}
    Reconciler = reconciler
    ProviderEvents = {p1, p2}
    CompletionTimes = {z1, z2}
    MaxAttempts = 3
    MaxCrashes = 1
    Duplicates = TRUE
INVARIANTS DueWhileUnsettled ChildFence ResultsAgree
PROPERTIES HandoffsImplementLedger HandoffsSettle
CHECK_DEADLOCK FALSE
