SPECIFICATION CustomsSpec
CONSTANTS
    p1 = p1
    i1 = i1
    application = application
    notification = notification
    Profiles = {p1}
    Interventions = {i1}
    Submissions = {application, notification}
    Cases = {case}
    Units = {u1, u2}
    Budgets <- MCBudgets
    SubmissionType <- MCSubmissionType
    SourceProfile <- MCSourceProfile
    SourceIntervention <- MCSourceIntervention
    MaxPackages = 2
    Calls = {c1, c2}
    Artifacts = {x1, x2}
SYMMETRY MCSymmetry
INVARIANTS JournalsWhole SubmittedPackageStands ReadyArtifactStored
PROPERTIES InterventionRecordKept
CHECK_DEADLOCK FALSE
