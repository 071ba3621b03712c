----------------------------- MODULE MCCustoms -----------------------------
(* CustomsArtifact on small instances: see the .cfg files.  Every budget    *)
(* gives the requests to one part of the system and to what that part      *)
(* needs of the others.                                                    *)
EXTENDS CustomsArtifact, TLC

CONSTANTS p1, i1, application, notification

MCSubmissionType ==
    application :> "fsmh_protection_application"
      @@ notification :> "customs_smuggling_notification"
MCSourceProfile == application :> p1 @@ notification :> p1
MCSourceIntervention == application :> NoSource @@ notification :> i1

Budget(p, i, a, n, calls, f) ==
    p1 :> p @@ i1 :> i @@ application :> a @@ notification :> n
      @@ "calls" :> calls @@ "faults" :> f

ProfileBudget == Budget(4, 1, 0, 0, 0, 0)
InterventionBudget == Budget(1, 6, 0, 0, 0, 0)
ApplicationBudget == Budget(2, 0, 8, 0, 0, 0)
NotificationBudget == Budget(1, 1, 0, 7, 0, 0)
ArtifactBudget == Budget(1, 0, 8, 0, 2, 1)

MCBudgets == {ProfileBudget, InterventionBudget, ApplicationBudget,
              NotificationBudget, ArtifactBudget}

MCSymmetry ==
    Permutations(Artifacts) \cup Permutations(Calls) \cup Permutations(Units)
=============================================================================
