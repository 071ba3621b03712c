------------------------ MODULE ProfessionalServices ------------------------
(***************************************************************************)
(* Professional service requests, and the agents that work for them        *)
(* (professional_services).  A request is scoped, becomes ready with an    *)
(* engagement and assigned with an assignment, and is worked on; an agent  *)
(* task runs, drafts an output, which a human reviews and another command  *)
(* publishes.                                                              *)
(*                                                                         *)
(* Authorities, authorizations, providers and conflict checks are written  *)
(* by others: a command that they do not cover is no step.                 *)
(***************************************************************************)
EXTENDS CommandBundles

CONSTANTS
    ServiceRequests,  \* ids of service requests
    Outputs,          \* hashes of agent outputs
    LegalOutputs,     \* those that a legal professional must review
    Users,
    LegalUsers,       \* users with professional class legal_professional
    Publishers        \* users who may publish

-----------------------------------------------------------------------------
SERVICE_REQUEST_TRANSITIONS ==
    [draft |-> {"requested", "cancelled"},
     requested |-> {"scoping", "cancelled"},
     scoping |-> {"awaiting_client_authorization",
                  "awaiting_budget_approval", "ready_for_assignment",
                  "cancelled"},
     awaiting_client_authorization |->
        {"awaiting_budget_approval", "ready_for_assignment", "cancelled"},
     awaiting_budget_approval |->
        {"awaiting_client_authorization", "ready_for_assignment",
         "cancelled"},
     ready_for_assignment |-> {"assigned", "cancelled"},
     assigned |-> {"in_progress", "cancelled"},
     in_progress |-> {"waiting_external", "blocked", "delivered",
                      "cancelled"},
     waiting_external |-> {"in_progress", "blocked", "delivered",
                           "cancelled"},
     blocked |-> {"in_progress", "cancelled"},
     delivered |-> {"revision_requested", "accepted", "cancelled"},
     revision_requested |-> {"in_progress", "cancelled"},
     accepted |-> {"closed"},
     closed |-> {},
     cancelled |-> {}]

AGENT_TASK_STATUSES ==
    {"draft", "queued", "running", "waiting_human_review",
     "revision_requested", "approved", "rejected", "published", "failed",
     "cancelled"}

SERVICE_REQUEST_STATUSES == DOMAIN SERVICE_REQUEST_TRANSITIONS
TerminalStatuses == {"closed", "cancelled"}

ENGAGEMENT_SOURCE_STATUSES ==
    {"scoping", "awaiting_client_authorization", "awaiting_budget_approval"}
AGENT_SERVICE_STATUSES ==
    {"assigned", "in_progress", "waiting_external", "blocked",
     "revision_requested"}
AGENT_PRE_ASSIGNMENT_STATUSES ==
    {"requested", "scoping", "awaiting_client_authorization",
     "awaiting_budget_approval", "ready_for_assignment"}

\* Ids: each is derived from the ids and values it names.
Request(q) == <<"request", q>>
Engagement(q) == <<"engagement", q>>
Assignment(q, n) == <<"assignment", q, n>>
Task(q, r) == <<"task", q, r>>
Run(t, n) == <<"run", t, n>>
Draft(run, o) == <<"output", run, o>>
Review(d, u, decision) == <<"review", d, u, decision>>
Publication(d, review) == <<"publication", d, review>>
None == <<"none">>

Tasks == {d \in DOMAIN document : d[1] = "task"}

ServicesTypeOK ==
    /\ \A q \in ServiceRequests : Exists(Request(q)) =>
         document[Request(q)].status \in SERVICE_REQUEST_STATUSES
    /\ \A t \in Tasks : document[t].status \in AGENT_TASK_STATUSES

-----------------------------------------------------------------------------
(* Service requests.                                                       *)

CreateServiceRequest(c, q) ==
    LET d == Request(q) IN
    /\ budget["request"] > 0
    /\ ~Exists(d)
    /\ Prepare(c, "createServiceRequest", One(d, 0),
         One(d, [version |-> 1, status |-> "requested", assignment |-> None,
                 eventCount |-> 1]),
         <<d, 1, "requested">>, <<"create_service_request", q>>)

CreateServiceRequestAtomic(c) == Commit(c, "createServiceRequest")

\* The next version of a request or task.
Advanced(changes) ==
    [changes EXCEPT !.version = @ + 1, !.eventCount = @ + 1]

\* Mutant of Transitionable: the generic command may set any next status.
TransitionableByTable(q, next) ==
    next \in SERVICE_REQUEST_TRANSITIONS[document[Request(q)].status]

\* Two statuses have commands of their own.
Transitionable(q, next) ==
    /\ next \in SERVICE_REQUEST_TRANSITIONS[document[Request(q)].status]
    /\ next \notin {"ready_for_assignment", "assigned"}

TransitionServiceRequest(c, q, r, next) ==
    LET d == Request(q) IN
    /\ Exists(d)
    /\ Transitionable(q, next)
    /\ Prepare(c, "transitionServiceRequest", One(d, Version(d)),
         One(d, Advanced([document[d] EXCEPT !.status = next])),
         <<d, r, "status_changed">>, <<"service_request", q, r>>)

TransitionServiceRequestAtomic(c) == Commit(c, "transitionServiceRequest")

\* The scope is authorized by the client, and the budget if it names one.
CreateServiceEngagement(c, q, r, budgeted) ==
    LET d == Request(q) IN
    /\ Exists(d)
    /\ document[d].status \in ENGAGEMENT_SOURCE_STATUSES
    /\ ~Exists(Engagement(q))
    /\ Prepare(c, "createServiceEngagement",
         Two(d, Version(d), Engagement(q), 0),
         Two(d, Advanced([document[d] EXCEPT
                            !.status = "ready_for_assignment"]),
             Engagement(q), [version |-> 1, budgeted |-> budgeted]),
         <<d, r, "engagement_created">>, <<"service_engagement", q, r>>)

CreateServiceEngagementAtomic(c) == Commit(c, "createServiceEngagement")

\* n is the assignment sequence, which the client chooses.
CreateServiceAssignment(c, q, r, n, billed) ==
    LET d == Request(q) IN
    /\ Exists(d)
    /\ document[d].status = "ready_for_assignment"
    /\ Exists(Engagement(q))
    /\ billed => document[Engagement(q)].budgeted
    /\ ~Exists(Assignment(q, n))
    /\ Prepare(c, "createServiceAssignment",
         Two(d, Version(d), Assignment(q, n), 0),
         Two(d, Advanced([document[d] EXCEPT
                            !.status = "assigned",
                            !.assignment = Assignment(q, n)]),
             Assignment(q, n), [version |-> 1, billed |-> billed]),
         <<d, r, "assignment_created">>, <<"service_assignment", q, r>>)

CreateServiceAssignmentAtomic(c) == Commit(c, "createServiceAssignment")

-----------------------------------------------------------------------------
(* Agent tasks.                                                            *)

\* With an assignment, or before there is one for the agents of intake.
AgentsMayWork(q) ==
    LET status == document[Request(q)].status IN
    \/ /\ status \in AGENT_SERVICE_STATUSES
       /\ document[Request(q)].assignment # None
    \/ status \in AGENT_PRE_ASSIGNMENT_STATUSES

\* The request is read and not looked at again by the transaction.  The id of
\* the task is derived from the request id of the command, so a rerun, which
\* must name the same task, bears the request id of the first run.
StartAgentRun(c, q, r, k) ==
    LET t == Task(q, r)
        new == ~Exists(t)
        n == IF new THEN 1 ELSE document[t].runCount + 1 IN
    /\ Exists(Request(q))
    /\ AgentsMayWork(q)
    /\ ~new => document[t].status \in {"revision_requested", "failed"}
    /\ ~Exists(Run(t, n))
    /\ Prepare(c, "startAgentRun", Two(t, Version(t), Run(t, n), 0),
         Two(t, IF new
                THEN [version |-> 1, status |-> "running", runCount |-> 1,
                      run |-> Run(t, 1), output |-> None, review |-> None,
                      publication |-> None, eventCount |-> 1]
                ELSE Advanced([document[t] EXCEPT
                       !.status = "running", !.runCount = n,
                       !.run = Run(t, n)]),
             Run(t, n), [version |-> 1, task |-> t]),
         <<t, r, "run_started">>, <<"agent_run", q, r, k>>)

CreateAgentRunAtomic(c) == Commit(c, "startAgentRun")

RecordAgentOutput(c, t, r, o) ==
    LET d == Draft(document[t].run, o) IN
    /\ document[t].status = "running"
    /\ ~Exists(d)
    /\ Prepare(c, "recordAgentOutput", Two(t, Version(t), d, 0),
         Two(t, Advanced([document[t] EXCEPT
                            !.status = "waiting_human_review",
                            !.output = d]),
             d, [version |-> 1, task |-> t, legal |-> o \in LegalOutputs]),
         <<t, r, "output_recorded">>,
         <<"agent_output_draft", document[t].run, r>>)

CreateAgentOutputDraftAtomic(c) == Commit(c, "recordAgentOutput")

Decisions == {"approved", "revision_requested", "rejected"}

\* Mutant of ReviewerSuffices: any authorized user reviews anything.
ReviewerSufficesAlways(d, u) == TRUE

ReviewerSuffices(d, u) == document[d].legal => u \in LegalUsers

RecordAgentReview(c, t, r, d, u, decision) ==
    LET review == Review(d, u, decision) IN
    /\ document[t].status = "waiting_human_review"
    /\ document[t].output = d
    /\ ReviewerSuffices(d, u)
    /\ ~Exists(review)
    /\ Prepare(c, "recordAgentReview", Two(t, Version(t), review, 0),
         Two(t, Advanced([document[t] EXCEPT
                            !.status = decision, !.review = review]),
             review, [version |-> 1, task |-> t]),
         <<t, r, "output_reviewed">>, <<"agent_human_review", d, r>>)

RecordAgentHumanReviewAtomic(c) == Commit(c, "recordAgentReview")

PublishAgentOutput(c, t, r, d, review, u) ==
    LET p == Publication(d, review) IN
    /\ document[t].status = "approved"
    /\ document[t].output = d /\ document[t].review = review
    /\ review[2] = d /\ review[4] = "approved"
    /\ ReviewerSuffices(d, u) /\ u \in Publishers
    /\ Prepare(c, "publishAgentOutput", Two(t, Version(t), p, 0),
         Two(t, Advanced([document[t] EXCEPT
                            !.status = "published", !.publication = p]),
             p, [version |-> 1, task |-> t, by |-> u]),
         <<t, r, "output_published">>,
         <<"agent_output_publication", d, r>>)

PublishAgentOutputAtomic(c) == Commit(c, "publishAgentOutput")

RequestCommands(c, q) ==
    \/ CreateServiceRequest(c, q)
    \/ \E r \in SentTo(Request(q)) :
         \/ \E next \in SERVICE_REQUEST_STATUSES :
              TransitionServiceRequest(c, q, r, next)
         \/ \E b \in BOOLEAN :
              \/ CreateServiceEngagement(c, q, r, b)
              \/ \E n \in {1, 2} : CreateServiceAssignment(c, q, r, n, b)

AgentCommands(c, q) ==
    \/ \E r \in 1 .. budget["tasks"], k \in Keys : StartAgentRun(c, q, r, k)
    \/ \E t \in Tasks : \E r \in SentTo(t) :
         \/ \E o \in Outputs : RecordAgentOutput(c, t, r, o)
         \/ \E u \in Users :
              \/ \E decision \in Decisions :
                   RecordAgentReview(c, t, r, document[t].output, u,
                                     decision)
              \/ PublishAgentOutput(c, t, r, document[t].output,
                                    document[t].review, u)

ServicesNext(c) ==
    \/ \E q \in ServiceRequests : RequestCommands(c, q) \/ AgentCommands(c, q)
    \/ CreateServiceRequestAtomic(c)
    \/ TransitionServiceRequestAtomic(c)
    \/ CreateServiceEngagementAtomic(c)
    \/ CreateServiceAssignmentAtomic(c)
    \/ CreateAgentRunAtomic(c)
    \/ CreateAgentOutputDraftAtomic(c)
    \/ RecordAgentHumanReviewAtomic(c)
    \/ PublishAgentOutputAtomic(c)
=============================================================================
