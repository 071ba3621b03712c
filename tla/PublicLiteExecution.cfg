SPECIFICATION ExecutionSpec
CONSTANTS
    Channels = {c1, c2}
    Invocations = {i1, i2, i3}
    MaxAttempts = 3
    MaxCrashes = 2
    Duplicates = TRUE
SYMMETRY MCSymmetry
INVARIANTS BundleConsistent AttemptFence
PROPERTIES TransitionsAllowed SettledIsFinal ImplementsLedger
