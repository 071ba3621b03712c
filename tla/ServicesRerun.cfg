SPECIFICATION CommandsSpec
CONSTANTS
    Calls = {c1, c2}
    Budgets <- MCRerunBudgets
    ServiceRequests = {q1}
    Outputs = {plain, legal}
    LegalOutputs = {legal}
    Users = {human, counsel}
    LegalUsers = {counsel}
    Publishers = {human, counsel}
    Matters = {m1}
    Officers = {lawyer, officer}
    Lawyers = {lawyer}
INVARIANTS RerunAccepted
CHECK_DEADLOCK FALSE
