SPECIFICATION CommandsSpec
CONSTANTS
    Calls = {c1, c2}
    Budgets <- MCBudgets
    ServiceRequests = {q1}
    Outputs = {plain, legal}
    LegalOutputs = {legal}
    Users = {human, counsel}
    LegalUsers = {counsel}
    Publishers = {human, counsel}
    Matters = {m1}
    Officers = {lawyer, officer}
    Lawyers = {lawyer}
SYMMETRY MCSymmetry
INVARIANTS BundlesWhole ServiceGates PublicationReviewed ApprovalDecidedOnce
PROPERTIES ApprovalsFitTheMatter
CHECK_DEADLOCK FALSE
