-------------------------- MODULE CommandServices --------------------------
(***************************************************************************)
(* Professional services and legal matters over their store, with the      *)
(* commands of several callers interleaved, and what must hold whatever    *)
(* the order in which their bundles commit.                                *)
(***************************************************************************)
EXTENDS ProfessionalServices, LegalMatters

CommandsNext ==
    \E c \in Calls :
        \/ ServicesNext(c)
        \/ MattersNext(c)
        \/ Refuse(c)
        \/ End(c)

CommandsSpec == StoreInit /\ [][CommandsNext]_storeVars

\* Versions, statuses and prepared calls are of their types.
CommandsTypeOK == StoreTypeOK /\ ServicesTypeOK /\ MattersTypeOK

-----------------------------------------------------------------------------
EventsOfType(d, type) == {e \in EventsOf(d) : e[3] = type}
RunsOf(t) ==
    {d \in DOMAIN document : d[1] = "run" /\ document[d].task = t}

VersionTellsEvents(d) ==
    /\ Version(d) = document[d].eventCount
    /\ Version(d) = Cardinality(EventsOf(d))

\* A bundle is committed whole and no update is lost: the version of a service
\* request, a task or a matter counts the events that changed it, a task has
\* as many runs as it says, and there is one receipt per event.  Every value a
\* command writes, the decision of a review among them, is of its type.
BundlesWhole ==
    /\ CommandsTypeOK
    /\ \A d \in DOMAIN document :
         /\ d[1] \in {"request", "task"} => VersionTellsEvents(d)
         /\ d[1] = "task" =>
              document[d].runCount = Cardinality(RunsOf(d))
         /\ d[1] = "matter" =>
              Version(d) = 1 + Cardinality(
                EventsOfType(d, "legal_matter_status_changed"))
    /\ Cardinality(receipt) = Cardinality(event)

AssignmentsOf(q) ==
    {d \in DOMAIN document : d[1] = "assignment" /\ d[2] = q}

\* No command takes a request past its gates: it is ready for assignment only
\* with an authorized engagement, assigned and worked on only with exactly one
\* assignment, the one it names, and a billed assignment has a budget.
ServiceGates ==
    \A q \in ServiceRequests : Exists(Request(q)) =>
        LET x == document[Request(q)] IN
        /\ x.status \notin AGENT_PRE_ASSIGNMENT_STATUSES
                             \cup {"cancelled"} =>
             /\ AssignmentsOf(q) = {x.assignment}
             /\ document[x.assignment].billed =>
                  document[Engagement(q)].budgeted
        /\ x.status \in AGENT_PRE_ASSIGNMENT_STATUSES =>
             AssignmentsOf(q) = {}
        /\ x.status = "ready_for_assignment" => Exists(Engagement(q))
        /\ Exists(Engagement(q)) =>
             x.status \notin ENGAGEMENT_SOURCE_STATUSES \cup {"requested"}

PublicationsOf(t) ==
    {d \in DOMAIN document : d[1] = "publication" /\ document[d].task = t}

\* What an agent drafts is published after a human approved that very draft,
\* of the current run of its task, and a legal draft only through legal users;
\* it is published once.
PublicationReviewed ==
    \A t \in Tasks :
        LET x == document[t] IN
        /\ x.status \in {"approved", "published"} =>
             /\ x.output[2] = x.run
             /\ \E u \in Users : x.review = Review(x.output, u, "approved")
             /\ document[x.output].legal => x.review[3] \in LegalUsers
        /\ IF x.status = "published"
           THEN /\ PublicationsOf(t) = {Publication(x.output, x.review)}
                /\ document[x.output].legal =>
                     document[x.publication].by \in LegalUsers
           ELSE PublicationsOf(t) = {}

\* A decided approval has exactly one decision, the one its status tells, and
\* an approval for lawyers was decided by a lawyer who did not prepare it; a
\* pending one has none.
ApprovalDecidedOnce ==
    \A a \in Approvals :
        LET x == document[a] IN
        IF x.status = "pending" THEN DecisionsOn(a) = {}
        ELSE \E u \in Officers :
               /\ DecisionsOn(a) = {Decision(a, u, x.status)}
               /\ a[3] \in LAWYER_APPROVAL_TYPES =>
                    u \in Lawyers \ {x.preparedBy}

\* An approval is requested for the matter as it is at that moment, although
\* the callers prepare their requests while others move the matter on, and its
\* outcome stands.
ApprovalsFitTheMatter ==
    [][/\ \A a \in {d \in DOMAIN document' : d[1] = "approval"} \ Approvals :
            /\ document'[Matter(a[2])].version = a[4]
            /\ document'[Matter(a[2])].status
                 \in APPROVAL_REQUEST_MATTER_STATUSES(a[3])
       /\ \A a \in Approvals :
            document[a].status # "pending" => document'[a] = document[a]
      ]_storeVars

\* A task that is sent back for revision is run again: a bundle that reruns it
\* is not refused for the event of an earlier run.
RerunAccepted ==
    \A c \in Calls :
        call[c].pc = "collided" /\ call[c].op = "startAgentRun" =>
            \A t \in Tasks \cap DOMAIN call[c].writes :
                document[t].status # "revision_requested"
=============================================================================
