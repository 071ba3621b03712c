SPECIFICATION PlatformSpec
CONSTANTS
    Calls = {c1, c2}
    Budgets <- MCBudgets
    Samples = {s1, s2}
    Laboratories = {l1, l2}
    Seals = {1}
    Registrations = {r1, r2}
    Certificates = {x1, x2}
    Agents = {a1, a2}
    Sources = {u1}
    Images = {i1, i2}
    TwinCodes = {t1, t2}
    RecordCodes = {k1, k2}
    Contents = {m1, m2}
    Owners = {o1, o2}
    OwnerNumbers = {n1, n2}
    Users = {p1, p2}
SYMMETRY MCSymmetry
INVARIANTS
    AuthoritiesWhole
    ResultsCounted
    CaseFileWhole
    UploadsBound
    ScansCounted
    PriorityChained
    PublicationsTold
PROPERTIES
    ResolutionStands
    SignalsTellTheirSource
    EndedStands
CHECK_DEADLOCK FALSE
