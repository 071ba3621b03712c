---------------------------- MODULE LegalMatters ----------------------------
(***************************************************************************)
(* Legal matters and their approvals (intervention_legal).  A matter goes  *)
(* through its lifecycle by one generic command; an approval is requested  *)
(* for a version of the matter and decided once, by a lawyer who did not   *)
(* prepare it or by an authorized client.                                  *)
(*                                                                         *)
(* Memberships and lawyer profiles are written by others: a command that   *)
(* they do not cover is no step.                                           *)
(***************************************************************************)
EXTENDS CommandBundles

CONSTANTS
    Matters,   \* keys of matters: case, jurisdiction and scope
    Officers,  \* users who send the commands
    Lawyers    \* those with an active profile that may approve

LEGAL_MATTER_TRANSITIONS ==
    [intake_pending |-> {"legal_review", "cancelled"},
     legal_review |-> {"evidence_required", "strategy_preparation",
                       "cancelled"},
     evidence_required |-> {"legal_review", "cancelled"},
     strategy_preparation |-> {"awaiting_authorization", "legal_review",
                               "cancelled"},
     awaiting_authorization |-> {"approved", "strategy_preparation",
                                 "cancelled"},
     approved |-> {"in_preparation", "cancelled"},
     in_preparation |-> {"submitted", "in_progress",
                         "awaiting_authorization", "cancelled"},
     submitted |-> {"in_progress", "awaiting_response", "escalated",
                    "resolved"},
     in_progress |-> {"awaiting_response", "escalated", "resolved"},
     awaiting_response |-> {"in_progress", "escalated", "resolved"},
     escalated |-> {"in_progress", "awaiting_response", "resolved"},
     resolved |-> {"closed", "in_progress"},
     closed |-> {"in_progress", "archived"},
     cancelled |-> {"archived"},
     archived |-> {}]

LEGAL_MATTER_STATUSES == DOMAIN LEGAL_MATTER_TRANSITIONS

\* One of the types that lawyers decide and one of those that clients do.
LAWYER_APPROVAL_TYPES == {"lawyer_legal_approval"}
CLIENT_APPROVAL_TYPES == {"client_action_authorization"}
APPROVAL_TYPES == LAWYER_APPROVAL_TYPES \cup CLIENT_APPROVAL_TYPES

APPROVAL_REQUEST_MATTER_STATUSES(type) ==
    IF type \in CLIENT_APPROVAL_TYPES
    THEN {"legal_review", "awaiting_authorization"} ELSE {"legal_review"}

ApprovalDecisions == {"approved", "rejected"}

\* Ids: the sequence of an approval is the version of its matter.
Matter(m) == <<"matter", m>>
Approval(m, type, n) == <<"approval", m, type, n>>
Decision(a, u, decision) == <<"decision", a, u, decision>>

Approvals == {d \in DOMAIN document : d[1] = "approval"}
DecisionsOn(a) ==
    {d \in DOMAIN document : d[1] = "decision" /\ d[2] = a}

MattersTypeOK ==
    /\ \A m \in Matters : Exists(Matter(m)) =>
         document[Matter(m)].status \in LEGAL_MATTER_STATUSES
    /\ \A a \in Approvals :
         document[a].status \in {"pending"} \cup ApprovalDecisions

-----------------------------------------------------------------------------
CreateLegalMatter(c, m) ==
    LET d == Matter(m) IN
    /\ budget["matter"] > 0
    /\ ~Exists(d)
    /\ Prepare(c, "createLegalMatter", One(d, 0),
         One(d, [version |-> 1, status |-> "intake_pending"]),
         <<d, 1, "legal_matter_created">>, <<"create_legal_matter", m>>)

CreateLegalMatterAtomic(c) == Commit(c, "createLegalMatter")

\* Any next status of the table: no approval is asked for on the way.
TransitionLegalMatter(c, m, r, next) ==
    LET d == Matter(m) IN
    /\ Exists(d)
    /\ next \in LEGAL_MATTER_TRANSITIONS[document[d].status]
    /\ Prepare(c, "transitionLegalMatter", One(d, Version(d)),
         One(d, [version |-> Version(d) + 1, status |-> next]),
         <<d, r, "legal_matter_status_changed">>, <<"legal_matter", m, r>>)

TransitionLegalMatterAtomic(c) == Commit(c, "transitionLegalMatter")

\* The matter is compared, not written.
CreateApprovalRequest(c, m, r, type, u) ==
    LET d == Matter(m)
        a == Approval(m, type, Version(d)) IN
    /\ Exists(d)
    /\ document[d].status \in APPROVAL_REQUEST_MATTER_STATUSES(type)
    /\ Prepare(c, "createApprovalRequest", Two(d, Version(d), a, 0),
         One(a, [version |-> 1, status |-> "pending", preparedBy |-> u]),
         <<d, r, "legal_approval_requested">>,
         <<"legal_approval_request", m, r>>)

CreateApprovalRequestAtomic(c) == Commit(c, "createApprovalRequest")

\* Mutant of MayDecide: a lawyer may decide what the lawyer prepared.
MayDecideOwn(a, u) == a[3] \in LAWYER_APPROVAL_TYPES => u \in Lawyers

MayDecide(a, u) ==
    a[3] \in LAWYER_APPROVAL_TYPES =>
        u \in Lawyers /\ document[a].preparedBy # u

\* Neither the version of the matter nor its status is looked at again.
RecordApprovalDecision(c, a, r, u, decision) ==
    LET d == Decision(a, u, decision)
        m == Matter(a[2]) IN
    /\ document[a].status = "pending"
    /\ MayDecide(a, u)
    /\ Prepare(c, "recordApprovalDecision", Two(a, Version(a), d, 0),
         Two(a, [document[a] EXCEPT
                   !.version = @ + 1, !.status = decision],
             d, [version |-> 1]),
         <<m, r, "legal_approval_decided">>,
         <<"legal_approval_decision", a, r>>)

RecordApprovalDecisionAtomic(c) == Commit(c, "recordApprovalDecision")

MatterCommands(c, m) ==
    \/ CreateLegalMatter(c, m)
    \/ \E r \in SentTo(Matter(m)) :
         \/ \E next \in LEGAL_MATTER_STATUSES :
              TransitionLegalMatter(c, m, r, next)
         \/ \E type \in APPROVAL_TYPES, u \in Officers :
              CreateApprovalRequest(c, m, r, type, u)
         \/ \E a \in Approvals, u \in Officers,
               decision \in ApprovalDecisions :
              a[2] = m /\ RecordApprovalDecision(c, a, r, u, decision)

MattersNext(c) ==
    \/ \E m \in Matters : MatterCommands(c, m)
    \/ CreateLegalMatterAtomic(c)
    \/ TransitionLegalMatterAtomic(c)
    \/ CreateApprovalRequestAtomic(c)
    \/ RecordApprovalDecisionAtomic(c)

=============================================================================
