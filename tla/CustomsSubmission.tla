------------------------- MODULE CustomsSubmission -------------------------
(***************************************************************************)
(* Submissions to an authority (customs_authority_submission) about the    *)
(* profiles and interventions of CustomsProtection: drafting and approval, *)
(* generation of immutable packages, the record of the submission made     *)
(* outside the system, the authority's responses and its outcome.          *)
(*                                                                         *)
(* The id of a submission is derived from its business key, so its type    *)
(* and its sources are those of its id.  Writes follow the same pattern as *)
(* in CustomsProtection.  Of a package matters which version it is and     *)
(* what it froze of its profile; of the references and confirmations of a  *)
(* submission, whether each is there.                                      *)
(***************************************************************************)
EXTENDS CustomsProtection

CONSTANTS
    Submissions,      \* ids of submissions
    SubmissionType,   \* the parts of the business key:
    SourceProfile,
    SourceIntervention,
    Units,            \* target units of the authority
    MaxPackages       \* bound: packages of one submission

NoSource == "no source"
NoUnit == "no unit"

ASSUME SubmissionAssumption ==
    /\ MaxPackages \in Nat \ {0}
    /\ SourceProfile \in [Submissions -> Profiles \cup {NoProfile}]
    /\ SourceIntervention \in [Submissions -> Interventions \cup {NoSource}]
    /\ NoSource \notin Interventions /\ NoUnit \notin Units

VARIABLES
    submission,  \* customs_authority_submissions
    package,     \* customs_submission_packages, by version
    response,    \* customs_submission_responses, by request
    history      \* customs_submission_events and the counters they keep

submissionVars == <<submission, package, response, history>>

-----------------------------------------------------------------------------
submissionTransitions ==
    [draft |-> {"awaiting_human_review", "archived"},
     awaiting_human_review |->
        {"draft", "awaiting_rights_holder_approval", "rejected"},
     awaiting_rights_holder_approval |->
        {"awaiting_human_review", "approved_for_package", "rejected"},
     approved_for_package |-> {"package_generated", "awaiting_human_review"},
     package_generated |-> {"approved_for_package", "submitted_externally"},
     submitted_externally |->
        {"receipt_recorded", "authority_review", "withdrawn"},
     receipt_recorded |->
        {"authority_review", "additional_information_requested",
         "concluded"},
     authority_review |-> {"additional_information_requested", "concluded"},
     additional_information_requested |-> {"authority_review", "concluded"},
     concluded |-> {"archived"},
     withdrawn |-> {"archived"},
     rejected |-> {"archived"},
     archived |-> {}]

SubmissionStatuses == DOMAIN submissionTransitions

EditableStatuses ==
    {"draft", "awaiting_human_review", "awaiting_rights_holder_approval"}

\* Statuses with operations of their own, which a transition may not set.
OperationStatuses ==
    {"package_generated", "receipt_recorded", "submitted_externally",
     "concluded"}

\* Response types that neither have an operation of their own nor conclude.
ResponseTypes == {"information_request", "other"}

CONCLUDABLE_OUTCOME_STATUSES ==
    {"submitted_externally", "receipt_recorded", "authority_review",
     "additional_information_requested"}

Versions == 1..MaxPackages

\* reviewed and approved stand for the two references, safeguarded for both
\* confirmations, of data minimization and of neutral language.
DraftData == [reviewed : BOOLEAN, approved : BOOLEAN, safeguarded : BOOLEAN,
              unit : Units]

SubmissionDocuments ==
    [status : SubmissionStatuses \cup {"absent"},
     reviewed : BOOLEAN, approved : BOOLEAN, safeguarded : BOOLEAN,
     unit : Units \cup {NoUnit}, current : {0} \cup Versions,
     packageCount : Nat, responseCount : Nat,
     external : {0} \cup Versions,  \* externalSubmission.packageVersion
     sentBy : Nat,                  \* externalSubmission.requestId
     outcome : Nat]                 \* the request of the outcome response
AbsentSubmission ==
    [status |-> "absent", reviewed |-> FALSE, approved |-> FALSE,
     safeguarded |-> FALSE, unit |-> NoUnit,
     current |-> 0, packageCount |-> 0, responseCount |-> 0,
     external |-> 0, sentBy |-> 0, outcome |-> 0]

\* sourceSnapshot: the status the package froze of its profile.
PackageDocuments == {"absent", NoSource} \cup ProfileStatuses

SubmissionTypeOK ==
    /\ submission \in [Submissions -> SubmissionDocuments]
    /\ package \in [Submissions -> [Versions -> PackageDocuments]]
    /\ \A s \in Submissions : response[s] \subseteq Nat
    /\ \A s \in Submissions : history[s].count \in Nat

SubmissionInit ==
    /\ submission = [s \in Submissions |-> AbsentSubmission]
    /\ package =
         [s \in Submissions |-> [v \in Versions |-> "absent"]]
    /\ response = [s \in Submissions |-> {}]
    /\ history = [s \in Submissions |-> EmptyJournal]

-----------------------------------------------------------------------------
\* The request is new to the submission; otherwise it is answered, as a
\* duplicate, a conflict or an inconsistency, without a write.
New(s, r) == ~Recorded(history[s], Event(r))

Received(s) == SentRequests(history[s], budget[s])

LogSubmission(s, r) ==
    history' = [history EXCEPT ![s] = Append1(@, Event(r))]

\* sourceSnapshots, read in the transaction that uses them.
SourcesFit(s) ==
    LET p == SourceProfile[s]
        i == SourceIntervention[s] IN
    /\ p # NoProfile => profile[p].status # "absent"
    /\ i # NoSource =>
         /\ intervention[i].status # "absent"
         /\ p # NoProfile => intervention[i].profile = p
    /\ SubmissionType[s] = "fsmh_protection_application" =>
         p # NoProfile /\ profile[p].status = "active"
    /\ SubmissionType[s] = "customs_smuggling_notification" =>
         i # NoSource

CreateSubmission(s, data) ==
    /\ submission[s].status = "absent"
    /\ 1 \in Received(s) /\ New(s, 1)
    /\ SourcesFit(s)
    /\ submission' = [submission EXCEPT ![s] =
         [AbsentSubmission EXCEPT
            !.status = "draft", !.reviewed = data.reviewed,
            !.approved = data.approved, !.safeguarded = data.safeguarded,
            !.unit = data.unit]]
    /\ LogSubmission(s, 1)
    /\ UNCHANGED <<package, response, protectionVars>>

Editable(s) == submission[s].status \in EditableStatuses

\* References can be replaced but not removed; the confirmations are
\* replaced.
UpdateSubmission(s, r, data) ==
    /\ New(s, r)
    /\ Editable(s)
    /\ submission' = [submission EXCEPT
         ![s].reviewed = @ \/ data.reviewed,
         ![s].approved = @ \/ data.approved,
         ![s].safeguarded = data.safeguarded,
         ![s].unit = data.unit]
    /\ LogSubmission(s, r)
    /\ UNCHANGED <<package, response, protectionVars>>

Gates(s) ==
    /\ submission[s].reviewed
    /\ submission[s].approved
    /\ submission[s].safeguarded

SubmissionMayBecome(s, next) ==
    /\ next \in submissionTransitions[submission[s].status]
    /\ next \notin OperationStatuses
    /\ next = "awaiting_rights_holder_approval" => submission[s].reviewed
    /\ next = "approved_for_package" => Gates(s)

TransitionSubmission(s, r, next) ==
    /\ submission[s].status # "absent"
    /\ New(s, r)
    /\ SubmissionMayBecome(s, next)
    /\ submission' = [submission EXCEPT ![s].status = next]
    /\ LogSubmission(s, r)
    /\ UNCHANGED <<package, response, protectionVars>>

\* What the package freezes of its profile.
Frozen(s) ==
    IF SourceProfile[s] = NoProfile THEN NoSource
    ELSE profile[SourceProfile[s]].status

GeneratePackage(s, r) ==
    LET v == submission[s].current + 1 IN
    /\ New(s, r)
    /\ submission[s].status = "approved_for_package"
    /\ Gates(s)
    /\ SourcesFit(s)
    /\ v \in Versions /\ package[s][v] = "absent"
    /\ package' = [package EXCEPT ![s][v] = Frozen(s)]
    /\ submission' = [submission EXCEPT
         ![s].status = "package_generated", ![s].current = v,
         ![s].packageCount = @ + 1]
    /\ LogSubmission(s, r)
    /\ UNCHANGED <<response, protectionVars>>

\* Mutant of IsCurrent: any package of the submission may be named.
IsCurrentOrOlder(s, v) == package[s][v] # "absent"

IsCurrent(s, v) == v = submission[s].current /\ package[s][v] # "absent"

\* The caller names the package that was sent by id, version and hash.
NamedPackages == Versions

RecordExternalSubmission(s, r, v) ==
    /\ New(s, r)
    /\ submission[s].status = "package_generated"
    /\ IsCurrent(s, v)
    /\ submission' = [submission EXCEPT
         ![s].status = "submitted_externally",
         ![s].external = v, ![s].sentBy = r]
    /\ LogSubmission(s, r)
    /\ UNCHANGED <<package, response, protectionVars>>

Respond(s, r, next) ==
    /\ New(s, r) /\ r \notin response[s]
    /\ response' = [response EXCEPT ![s] = @ \cup {r}]
    /\ submission' = [submission EXCEPT
         ![s].status = next, ![s].responseCount = @ + 1]
    /\ LogSubmission(s, r)
    /\ UNCHANGED <<package, protectionVars>>

RecordReceipt(s, r) ==
    /\ submission[s].status # "absent"
    /\ "receipt_recorded" \in submissionTransitions[submission[s].status]
    /\ Respond(s, r, "receipt_recorded")

\* An information request moves the submission from any of the statuses,
\* another response leaves it where it is.
StatusAfter(s, responseType) ==
    IF responseType = "information_request"
    THEN "additional_information_requested" ELSE submission[s].status

AppendResponse(s, r, responseType) ==
    /\ submission[s].status \in CONCLUDABLE_OUTCOME_STATUSES
    /\ Respond(s, r, StatusAfter(s, responseType))

OutcomeEvents(log, r) == Append2(log, Event(r), <<r, "concluded">>)

\* Response, outcome and conclusion in one transaction.
RecordOutcome(s, r) ==
    /\ New(s, r) /\ r \notin response[s]
    /\ submission[s].status \in CONCLUDABLE_OUTCOME_STATUSES
    /\ submission[s].external # 0
    /\ package[s][submission[s].external] # "absent"
    /\ response' = [response EXCEPT ![s] = @ \cup {r}]
    /\ submission' = [submission EXCEPT
         ![s].status = "concluded", ![s].outcome = r,
         ![s].responseCount = @ + 1]
    /\ history' = [history EXCEPT ![s] = OutcomeEvents(@, r)]
    /\ UNCHANGED <<package, protectionVars>>

\* The detail view compares the counters of the submission with the
\* documents it finds.
DetailVerified(s) ==
    /\ history[s].count = Cardinality(DOMAIN history[s].events)
    /\ submission[s].packageCount =
         Cardinality({v \in Versions : package[s][v] # "absent"})
    /\ submission[s].responseCount = Cardinality(response[s])
    /\ submission[s].current # 0 =>
         package[s][submission[s].current] # "absent"

SubmissionNext(s) ==
    \/ \E data \in DraftData :
         \/ CreateSubmission(s, data)
         \/ \E r \in Received(s) : UpdateSubmission(s, r, data)
    \/ \E r \in Received(s) :
         \/ \E next \in SubmissionStatuses : TransitionSubmission(s, r, next)
         \/ GeneratePackage(s, r)
         \/ \E v \in NamedPackages : RecordExternalSubmission(s, r, v)
         \/ RecordReceipt(s, r)
         \/ \E t \in ResponseTypes : AppendResponse(s, r, t)
         \/ RecordOutcome(s, r)

=============================================================================
