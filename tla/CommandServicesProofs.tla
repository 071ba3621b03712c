----------------------- MODULE CommandServicesProofs -----------------------
(***************************************************************************)
(* Proofs about CommandServices: what professional services and legal      *)
(* matters promise, for any number of callers, requests, tasks and matters *)
(* and whatever the order in which their bundles commit.                   *)
(*                                                                         *)
(* Everything rests on one fact, FitsKept: a bundle that finds the         *)
(* versions it expects could have been prepared at this very moment, for   *)
(* versions only grow, with every write, and what a command reads without  *)
(* comparing its version is written once.  So it is enough to look at what *)
(* a command would do if it were prepared and committed in one step, which *)
(* the predicates on bundles say; there is one for each command.           *)
(***************************************************************************)
EXTENDS CommandServices, FiniteSetTheorems, TLAPS

-----------------------------------------------------------------------------
(* Bundles.  Each predicate says that x could be prepared now by a command.*)

RequestFields == {"version", "status", "assignment", "eventCount"}
TaskFields == {"version", "status", "runCount", "run", "output", "review",
               "publication", "eventCount"}
ApprovalFields == {"version", "status", "preparedBy"}

CreatesRequest(x, q) ==
    LET d == Request(q) IN
    /\ ~Exists(d)
    /\ x.expects = One(d, 0)
    /\ x.writes = One(d, [version |-> 1, status |-> "requested",
                          assignment |-> None, eventCount |-> 1])
    /\ x.event[1] = d /\ x.event[3] = "requested"

MovesRequest(x, q, next) ==
    LET d == Request(q) IN
    /\ Exists(d)
    /\ Transitionable(q, next)
    /\ x.expects = One(d, Version(d))
    /\ x.writes = One(d, Advanced([document[d] EXCEPT !.status = next]))
    /\ x.event[1] = d /\ x.event[3] = "status_changed"

Engages(x, q, budgeted) ==
    LET d == Request(q)
        g == Engagement(q) IN
    /\ Exists(d) /\ ~Exists(g)
    /\ document[d].status \in ENGAGEMENT_SOURCE_STATUSES
    /\ x.expects = Two(d, Version(d), g, 0)
    /\ x.writes =
         Two(d, Advanced([document[d] EXCEPT
                            !.status = "ready_for_assignment"]),
             g, [version |-> 1, budgeted |-> budgeted])
    /\ x.event[1] = d /\ x.event[3] = "engagement_created"

Assigns(x, q, n, billed) ==
    LET d == Request(q)
        a == Assignment(q, n) IN
    /\ Exists(d) /\ ~Exists(a)
    /\ document[d].status = "ready_for_assignment"
    /\ Exists(Engagement(q))
    /\ billed => document[Engagement(q)].budgeted
    /\ x.expects = Two(d, Version(d), a, 0)
    /\ x.writes =
         Two(d, Advanced([document[d] EXCEPT
                            !.status = "assigned", !.assignment = a]),
             a, [version |-> 1, billed |-> billed])
    /\ x.event[1] = d /\ x.event[3] = "assignment_created"

StartsTask(x, t) ==
    /\ t[1] = "task" /\ ~Exists(t) /\ ~Exists(Run(t, 1))
    /\ x.expects = Two(t, 0, Run(t, 1), 0)
    /\ x.writes =
         Two(t, [version |-> 1, status |-> "running", runCount |-> 1,
                 run |-> Run(t, 1), output |-> None, review |-> None,
                 publication |-> None, eventCount |-> 1],
             Run(t, 1), [version |-> 1, task |-> t])
    /\ x.event[1] = t /\ x.event[3] = "run_started"

RerunsTask(x, t) ==
    LET n == document[t].runCount + 1 IN
    /\ t \in Tasks /\ ~Exists(Run(t, n))
    /\ document[t].status \in {"revision_requested", "failed"}
    /\ x.expects = Two(t, Version(t), Run(t, n), 0)
    /\ x.writes =
         Two(t, Advanced([document[t] EXCEPT
                            !.status = "running", !.runCount = n,
                            !.run = Run(t, n)]),
             Run(t, n), [version |-> 1, task |-> t])
    /\ x.event[1] = t /\ x.event[3] = "run_started"

Drafts(x, t, o) ==
    LET d == Draft(document[t].run, o) IN
    /\ t \in Tasks /\ ~Exists(d)
    /\ document[t].status = "running"
    /\ x.expects = Two(t, Version(t), d, 0)
    /\ x.writes =
         Two(t, Advanced([document[t] EXCEPT
                            !.status = "waiting_human_review",
                            !.output = d]),
             d, [version |-> 1, task |-> t, legal |-> o \in LegalOutputs])
    /\ x.event[1] = t /\ x.event[3] = "output_recorded"

Reviews(x, t, u, decision) ==
    LET d == document[t].output
        review == Review(d, u, decision) IN
    /\ t \in Tasks /\ ~Exists(review)
    /\ document[t].status = "waiting_human_review"
    /\ ReviewerSuffices(d, u)
    /\ x.expects = Two(t, Version(t), review, 0)
    /\ x.writes =
         Two(t, Advanced([document[t] EXCEPT
                            !.status = decision, !.review = review]),
             review, [version |-> 1, task |-> t])
    /\ x.event[1] = t /\ x.event[3] = "output_reviewed"

Publishes(x, t, u) ==
    LET d == document[t].output
        p == Publication(d, document[t].review) IN
    /\ t \in Tasks
    /\ document[t].status = "approved"
    /\ ReviewerSuffices(d, u)
    /\ x.expects = Two(t, Version(t), p, 0)
    /\ x.writes =
         Two(t, Advanced([document[t] EXCEPT
                            !.status = "published", !.publication = p]),
             p, [version |-> 1, task |-> t, by |-> u])
    /\ x.event[1] = t /\ x.event[3] = "output_published"

CreatesMatter(x, m) ==
    LET d == Matter(m) IN
    /\ ~Exists(d)
    /\ x.expects = One(d, 0)
    /\ x.writes = One(d, [version |-> 1, status |-> "intake_pending"])
    /\ x.event[1] = d /\ x.event[3] = "legal_matter_created"

MovesMatter(x, m, next) ==
    LET d == Matter(m) IN
    /\ Exists(d)
    /\ next \in LEGAL_MATTER_TRANSITIONS[document[d].status]
    /\ x.expects = One(d, Version(d))
    /\ x.writes = One(d, [version |-> Version(d) + 1, status |-> next])
    /\ x.event[1] = d /\ x.event[3] = "legal_matter_status_changed"

AsksApproval(x, m, type, u) ==
    LET d == Matter(m)
        a == Approval(m, type, Version(d)) IN
    /\ Exists(d)
    /\ document[d].status \in APPROVAL_REQUEST_MATTER_STATUSES(type)
    /\ x.expects = Two(d, Version(d), a, 0)
    /\ x.writes = One(a, [version |-> 1, status |-> "pending",
                          preparedBy |-> u])
    /\ x.event[1] = d /\ x.event[3] = "legal_approval_requested"

Decides(x, a, u, decision) ==
    LET d == Decision(a, u, decision) IN
    /\ a \in Approvals
    /\ document[a].status = "pending"
    /\ MayDecide(a, u)
    /\ x.expects = Two(a, Version(a), d, 0)
    /\ x.writes = Two(a, [document[a] EXCEPT
                            !.version = @ + 1, !.status = decision],
                      d, [version |-> 1])
    /\ x.event[1] = Matter(a[2]) /\ x.event[3] = "legal_approval_decided"

\* Some command could prepare x now.
Preparable(x) ==
    \/ \E q \in ServiceRequests :
         \/ CreatesRequest(x, q)
         \/ \E next \in SERVICE_REQUEST_STATUSES : MovesRequest(x, q, next)
         \/ \E b \in BOOLEAN : Engages(x, q, b)
         \/ \E n \in {1, 2}, b \in BOOLEAN : Assigns(x, q, n, b)
    \/ \E t : StartsTask(x, t)
    \/ \E t \in Tasks :
         \/ RerunsTask(x, t)
         \/ \E o \in Outputs : Drafts(x, t, o)
         \/ \E u \in Users, decision \in Decisions : Reviews(x, t, u, decision)
         \/ \E u \in Users : Publishes(x, t, u)
    \/ \E m \in Matters :
         \/ CreatesMatter(x, m)
         \/ \E next \in LEGAL_MATTER_STATUSES : MovesMatter(x, m, next)
         \/ \E type \in APPROVAL_TYPES, u \in Officers :
              AsksApproval(x, m, type, u)
    \/ \E a \in Approvals, u \in Officers, decision \in ApprovalDecisions :
         Decides(x, a, u, decision)

-----------------------------------------------------------------------------
(* The inductive invariant of the store.                                   *)

\* Documents that commands read without comparing their versions.
WrittenOnce == {"engagement", "assignment", "run", "output", "review",
                "publication", "decision"}

\* What a bundle expects was so when it was read; it writes the next version
\* of documents that it compares.
Ordered(x) ==
    /\ \A d \in DOMAIN x.expects :
         x.expects[d] \in Nat /\ x.expects[d] <= Version(d)
    /\ \A d \in DOMAIN x.writes :
         /\ d \in DOMAIN x.expects
         /\ x.writes[d].version = x.expects[d] + 1
         /\ d[1] \in WrittenOnce => x.expects[d] = 0

AllAsExpected(x) == \A d \in DOMAIN x.expects : Version(d) = x.expects[d]

Fits(x) == Ordered(x) /\ (AllAsExpected(x) => Preparable(x))

Versioned ==
    /\ \A d \in DOMAIN document : document[d].version \in Nat \ {0}
    /\ IsFiniteSet(DOMAIN document)
    /\ IsFiniteSet(event) /\ IsFiniteSet(receipt)
    /\ Cardinality(receipt) = Cardinality(event)

StoreInv ==
    /\ StoreTypeOK
    /\ DOMAIN call = Calls
    /\ Versioned
    /\ \A c \in Calls : \A x :
         x = call[c] /\ x.pc = "prepared" => Fits(x)

\* The fields of the documents of a kind, and their types.
RequestStands(v) ==
    /\ DOMAIN v = RequestFields
    /\ v.status \in SERVICE_REQUEST_STATUSES \ {"draft"}
    /\ v.eventCount = v.version

TaskStands(v) ==
    /\ DOMAIN v = TaskFields
    /\ v.status \in AGENT_TASK_STATUSES
    /\ v.eventCount = v.version
    /\ v.runCount \in Nat

ApprovalStands(v) ==
    /\ DOMAIN v = ApprovalFields
    /\ v.status \in {"pending"} \cup ApprovalDecisions

Stands(d, v) ==
    /\ d[1] = "request" => RequestStands(v)
    /\ d[1] = "task" => TaskStands(v)
    /\ d[1] = "approval" => ApprovalStands(v)
    /\ d[1] = "matter" => v.status \in LEGAL_MATTER_STATUSES

DocumentsStand == \A d \in DOMAIN document : Stands(d, document[d])

\* What a task has waiting for review, or reviewed, is an output.
OutputsStand ==
    \A t \in Tasks :
      document[t].status \in {"waiting_human_review", "approved", "published"}
        => document[t].output[1] = "output" /\ Exists(document[t].output)

-----------------------------------------------------------------------------
(* Versions.                                                               *)

Same(d) ==
    /\ d \in DOMAIN document' <=> d \in DOMAIN document
    /\ d \in DOMAIN document => document'[d] = document[d]

LEMMA VersionFacts ==
  ASSUME Versioned
  PROVE  \A d : /\ Version(d) \in Nat
                /\ Version(d) = 0 <=> ~Exists(d)
                /\ Exists(d) => Version(d) = document[d].version
  BY DEF Versioned, Version, Exists

\* The bundle of a call that commits, and what the commit makes of every
\* document.
Commits(c) == \E op : Commit(c, op)

LEMMA CommitEffect ==
  ASSUME StoreInv, NEW c \in Calls, Commits(c)
  PROVE  /\ call[c].pc = "prepared"
         /\ Ordered(call[c]) /\ Preparable(call[c])
         /\ DOMAIN document' = DOMAIN document \cup DOMAIN call[c].writes
         /\ \A d \in DOMAIN call[c].writes : document'[d] = call[c].writes[d]
         /\ \A d : d \notin DOMAIN call[c].writes => Same(d)
         /\ \A d : Version(d)' >= Version(d)
         /\ \A d : Version(d)' = Version(d) => Same(d)
         /\ \A d : d[1] \in WrittenOnce /\ Exists(d) => Same(d)
         /\ \A d : Exists(d) => Exists(d)'
  <1> DEFINE x == call[c]
             w == call[c].writes
  <1>1. /\ x.pc = "prepared" /\ AllAsExpected(x)
        /\ document' = [d \in DOMAIN document \cup DOMAIN w |->
                          IF d \in DOMAIN w THEN w[d] ELSE document[d]]
    BY DEF Commits, Commit, AsExpected, AllAsExpected, Written
  <1>2. Ordered(x) /\ Preparable(x) /\ Versioned
    BY <1>1 DEF StoreInv, Fits
  <1>3. /\ DOMAIN document' = DOMAIN document \cup DOMAIN w
        /\ \A d \in DOMAIN w : document'[d] = w[d]
        /\ \A d : d \notin DOMAIN w => Same(d)
    BY <1>1 DEF Same, Exists
  <1>4. \A d \in DOMAIN w : /\ Version(d)' = Version(d) + 1
                            /\ Version(d) \in Nat
                            /\ d[1] \in WrittenOnce => Version(d) = 0
    <2> SUFFICES ASSUME NEW d \in DOMAIN w
                 PROVE  /\ Version(d)' = Version(d) + 1
                        /\ Version(d) \in Nat
                        /\ d[1] \in WrittenOnce => Version(d) = 0
      OBVIOUS
    <2>1. /\ d \in DOMAIN x.expects /\ w[d].version = x.expects[d] + 1
          /\ Version(d) = x.expects[d]
          /\ d[1] \in WrittenOnce => x.expects[d] = 0
      BY <1>1, <1>2 DEF Ordered, AllAsExpected
    <2>2. Version(d)' = w[d].version
      BY <1>3 DEF Version
    <2> QED BY <2>1, <2>2, <1>2, VersionFacts
  <1>5. \A d : d \notin DOMAIN w => Version(d)' = Version(d)
    BY <1>3 DEF Same, Version, Exists
  <1>6. \A d : Version(d)' >= Version(d)
    BY <1>2, <1>4, <1>5, VersionFacts
  <1>7. \A d : Version(d)' = Version(d) => Same(d)
    BY <1>3, <1>4
  <1>8. \A d : d[1] \in WrittenOnce /\ Exists(d) => Same(d)
    BY <1>2, <1>3, <1>4, VersionFacts
  <1> QED BY <1>1, <1>2, <1>3, <1>6, <1>7, <1>8 DEF Exists

\* A command writes one document or two.
LEMMA FewWrites ==
  ASSUME NEW x, Preparable(x)
  PROVE  \E d, e : DOMAIN x.writes = {d} \/ DOMAIN x.writes = {d, e}
  <1> DEFINE Writes1 == \E d, v : x.writes = One(d, v)
             Writes2 == \E d, v, e, u : x.writes = Two(d, v, e, u)
             Few == Writes1 \/ Writes2
  <1>1. ASSUME NEW q, NEW next, CreatesRequest(x, q) \/ MovesRequest(x, q, next)
        PROVE  Writes1
    BY <1>1 DEF CreatesRequest, MovesRequest
  <1>2. ASSUME NEW q, NEW n, NEW b, Engages(x, q, b) \/ Assigns(x, q, n, b)
        PROVE  Writes2
    BY <1>2 DEF Engages, Assigns
  <1>3. ASSUME NEW t, StartsTask(x, t) \/ RerunsTask(x, t)
        PROVE  Writes2
    BY <1>3 DEF StartsTask, RerunsTask
  <1>4. ASSUME NEW t, NEW o, NEW u, NEW decision,
               \/ Drafts(x, t, o) \/ Reviews(x, t, u, decision)
               \/ Publishes(x, t, u)
        PROVE  Writes2
    BY <1>4 DEF Drafts, Reviews, Publishes
  <1>5. ASSUME NEW m, NEW next, CreatesMatter(x, m) \/ MovesMatter(x, m, next)
        PROVE  Writes1
    BY <1>5 DEF CreatesMatter, MovesMatter
  <1>6. ASSUME NEW m, NEW type, NEW u, AsksApproval(x, m, type, u)
        PROVE  Writes1
    BY <1>6 DEF AsksApproval
  <1>7. ASSUME NEW a, NEW u, NEW decision, Decides(x, a, u, decision)
        PROVE  Writes2
    BY <1>7 DEF Decides
  <1> HIDE DEF Writes1, Writes2
  <1>8. Few
    BY <1>1, <1>2, <1>3, <1>4, <1>5, <1>6, <1>7 DEF Preparable
  <1>9. CASE Writes1
    <2>1. PICK d, v : x.writes = One(d, v)
      BY <1>9 DEF Writes1
    <2>2. DOMAIN One(d, v) = {d}
      BY DEF One
    <2>3. DOMAIN x.writes = {d}
      BY <2>1, <2>2
    <2> QED BY <2>3
  <1>10. CASE Writes2
    <2>1. PICK d, v, e, u : x.writes = Two(d, v, e, u)
      BY <1>10 DEF Writes2
    <2>2. DOMAIN Two(d, v, e, u) = {d, e}
      BY DEF Two
    <2>3. DOMAIN x.writes = {d, e}
      BY <2>1, <2>2
    <2> QED BY <2>3
  <1> QED BY <1>8, <1>9, <1>10

\* A commit keeps versions and counts: the receipt and the event are new.
LEMMA VersionsKept ==
  ASSUME StoreInv, NEW c \in Calls, Commits(c)
  PROVE  Versioned'
  <1> DEFINE w == call[c].writes
  <1>1. /\ DOMAIN document' = DOMAIN document \cup DOMAIN w
        /\ \A d : Version(d)' >= Version(d)
        /\ \A d \in DOMAIN w : document'[d] = w[d]
        /\ \A d : d \notin DOMAIN w => Same(d)
        /\ Ordered(call[c]) /\ Preparable(call[c])
    BY CommitEffect
  <1>2. \A d \in DOMAIN document' : document'[d].version \in Nat \ {0}
    BY <1>1 DEF Ordered, Same, Exists, StoreInv, Versioned
  <1>3. IsFiniteSet(DOMAIN w)
    <2>1. \E d, e : DOMAIN w = {d} \/ DOMAIN w = {d, e}
      BY <1>1, FewWrites
    <2>2. \A d, e : IsFiniteSet({d}) /\ IsFiniteSet({d, e})
      <3> SUFFICES ASSUME NEW d, NEW e
                   PROVE  IsFiniteSet({d}) /\ IsFiniteSet({d, e})
        OBVIOUS
      <3>1. IsFiniteSet({d})
        BY FS_Singleton
      <3>2. IsFiniteSet({d} \cup {e})
        BY <3>1, FS_AddElement
      <3>3. {d} \cup {e} = {d, e}
        OBVIOUS
      <3> QED BY <3>1, <3>2, <3>3
    <2> QED BY <2>1, <2>2
  <1>4. IsFiniteSet(DOMAIN document')
    <2>1. IsFiniteSet(DOMAIN document)
      BY DEF StoreInv, Versioned
    <2>2. IsFiniteSet(DOMAIN document \cup DOMAIN w)
      BY <1>3, <2>1, FS_Union
    <2> QED BY <1>1, <2>2
  <1>5. /\ event' = event \cup {call[c].event} /\ call[c].event \notin event
        /\ receipt' = receipt \cup {call[c].receipt}
        /\ call[c].receipt \notin receipt
    BY DEF Commits, Commit
  <1>6. /\ IsFiniteSet(event') /\ Cardinality(event') = Cardinality(event) + 1
        /\ IsFiniteSet(receipt')
        /\ Cardinality(receipt') = Cardinality(receipt) + 1
    BY <1>5, FS_AddElement DEF StoreInv, Versioned
  <1> QED BY <1>2, <1>4, <1>6 DEF StoreInv, Versioned

-----------------------------------------------------------------------------
(* Other commits leave a bundle as it was, or outdate it.                  *)

\* What a prepared command read is the same as before.
LEMMA StillPreparable ==
  ASSUME NEW x, Preparable(x),
         \A d \in DOMAIN x.expects : Same(d),
         \A d : d[1] \in WrittenOnce /\ Exists(d) => Same(d),
         OutputsStand
  PROVE  Preparable(x)'
  <1>1. ASSUME NEW q \in ServiceRequests, CreatesRequest(x, q)
        PROVE  CreatesRequest(x, q)'
    <2>1. Same(Request(q))
      BY <1>1 DEF One, CreatesRequest
    <2> QED BY <1>1, <2>1 DEF CreatesRequest, Same, Exists
  <1>2. ASSUME NEW q \in ServiceRequests, NEW next \in SERVICE_REQUEST_STATUSES,
               MovesRequest(x, q, next)
        PROVE  MovesRequest(x, q, next)'
    <2>1. Same(Request(q))
      BY <1>2 DEF One, MovesRequest
    <2> QED
      BY <1>2, <2>1 DEF MovesRequest, Same, Transitionable, Version, Exists
  <1>3. ASSUME NEW q \in ServiceRequests, NEW b \in BOOLEAN, Engages(x, q, b)
        PROVE  Engages(x, q, b)'
    <2>1. Same(Request(q)) /\ Same(Engagement(q))
      BY <1>3 DEF Two, Engages
    <2> QED BY <1>3, <2>1 DEF Engages, Same, Version, Exists
  <1>4. ASSUME NEW q \in ServiceRequests, NEW n \in {1, 2}, NEW b \in BOOLEAN,
               Assigns(x, q, n, b)
        PROVE  Assigns(x, q, n, b)'
    <2>1. Same(Request(q)) /\ Same(Assignment(q, n))
      BY <1>4 DEF Two, Assigns
    <2>2. Same(Engagement(q))
      BY <1>4 DEF Assigns, Engagement, WrittenOnce
    <2> QED
      BY <1>4, <2>1, <2>2 DEF Assigns, Same, Version, Exists
  <1>5. ASSUME NEW t, StartsTask(x, t)
        PROVE  StartsTask(x, t)'
    <2>1. Same(t) /\ Same(Run(t, 1))
      BY <1>5 DEF Two, StartsTask
    <2> QED BY <1>5, <2>1 DEF StartsTask, Same, Exists
  <1>6. ASSUME NEW t \in Tasks, RerunsTask(x, t)
        PROVE  t \in Tasks' /\ RerunsTask(x, t)'
    <2>1. Same(t) /\ Same(Run(t, document[t].runCount + 1)) /\ Exists(t)
      BY <1>6 DEF Two, RerunsTask, Tasks, Exists
    <2> QED
      BY <1>6, <2>1 DEF RerunsTask, Same, Version, Exists, Tasks
  <1>7. ASSUME NEW t \in Tasks, NEW o \in Outputs, Drafts(x, t, o)
        PROVE  t \in Tasks' /\ Drafts(x, t, o)'
    <2>1. Same(t) /\ Same(Draft(document[t].run, o)) /\ Exists(t)
      BY <1>7 DEF Two, Drafts, Tasks, Exists
    <2> QED
      BY <1>7, <2>1 DEF Drafts, Same, Version, Exists, Tasks
  <1>8. ASSUME NEW t \in Tasks, NEW u \in Users, NEW decision \in Decisions,
                Reviews(x, t, u, decision)
         PROVE  t \in Tasks' /\ Reviews(x, t, u, decision)'
    <2>1. /\ Same(t) /\ Exists(t)
          /\ Same(Review(document[t].output, u, decision))
      BY <1>8 DEF Two, Reviews, Tasks, Exists
    <2>2. Same(document[t].output) /\ Exists(document[t].output)
      BY <1>8 DEF Reviews, OutputsStand, WrittenOnce
    <2> QED
      BY <1>8, <2>1, <2>2
      DEF Reviews, ReviewerSuffices, Same, Version, Exists, Tasks
  <1>9. ASSUME NEW t \in Tasks, NEW u \in Users, Publishes(x, t, u)
         PROVE  t \in Tasks' /\ Publishes(x, t, u)'
    <2>1. /\ Same(t) /\ Exists(t)
          /\ Same(Publication(document[t].output, document[t].review))
      BY <1>9 DEF Two, Publishes, Tasks, Exists
    <2>2. Same(document[t].output) /\ Exists(document[t].output)
      BY <1>9 DEF Publishes, OutputsStand, WrittenOnce
    <2> QED
      BY <1>9, <2>1, <2>2
      DEF Publishes, ReviewerSuffices, Same, Version, Exists, Tasks
  <1>10. ASSUME NEW m \in Matters, CreatesMatter(x, m)
         PROVE  CreatesMatter(x, m)'
    <2>1. Same(Matter(m))
      BY <1>10 DEF One, CreatesMatter
    <2> QED BY <1>10, <2>1 DEF CreatesMatter, Same, Exists
  <1>11. ASSUME NEW m \in Matters, NEW next \in LEGAL_MATTER_STATUSES,
                MovesMatter(x, m, next)
         PROVE  MovesMatter(x, m, next)'
    <2>1. Same(Matter(m))
      BY <1>11 DEF One, MovesMatter
    <2> QED BY <1>11, <2>1 DEF MovesMatter, Same, Version, Exists
  <1>12. ASSUME NEW m \in Matters, NEW type \in APPROVAL_TYPES,
                NEW u \in Officers, AsksApproval(x, m, type, u)
         PROVE  AsksApproval(x, m, type, u)'
    <2>1. Same(Matter(m)) /\ Same(Approval(m, type, Version(Matter(m))))
      BY <1>12 DEF Two, AsksApproval
    <2>2. Version(Matter(m))' = Version(Matter(m))
      BY <2>1 DEF Same, Version, Exists
    <2> QED
      BY <1>12, <2>1, <2>2 DEF AsksApproval, Same, Version, Exists
  <1>13. ASSUME NEW a \in Approvals, NEW u \in Officers,
                NEW decision \in ApprovalDecisions, Decides(x, a, u, decision)
         PROVE  a \in Approvals' /\ Decides(x, a, u, decision)'
    <2>1. Same(a) /\ Same(Decision(a, u, decision)) /\ Exists(a)
      BY <1>13 DEF Two, Decides, Approvals, Exists
    <2> QED
      BY <1>13, <2>1 DEF Decides, MayDecide, Same, Version, Exists, Approvals
  <1> QED
    BY <1>1, <1>2, <1>3, <1>4, <1>5, <1>6, <1>7, <1>8, <1>9, <1>10, <1>11,
       <1>12, <1>13
    DEF Preparable

-----------------------------------------------------------------------------
(* What commands write.                                                    *)

\* The table of a service request, in the parts the gates need.
LEMMA RequestTable ==
  ASSUME NEW s \in SERVICE_REQUEST_STATUSES \ {"draft"},
         NEW next \in SERVICE_REQUEST_TRANSITIONS[s]
  PROVE  /\ next \in SERVICE_REQUEST_STATUSES \ {"draft", "requested"}
         /\ s \notin AGENT_PRE_ASSIGNMENT_STATUSES
              => next \notin AGENT_PRE_ASSIGNMENT_STATUSES
         /\ s \in AGENT_PRE_ASSIGNMENT_STATUSES
              => next \in AGENT_PRE_ASSIGNMENT_STATUSES
                            \cup {"assigned", "cancelled"}
         /\ s = "ready_for_assignment" => next \in {"assigned", "cancelled"}
         /\ s # "cancelled"
  BY DEF SERVICE_REQUEST_STATUSES, SERVICE_REQUEST_TRANSITIONS,
         AGENT_PRE_ASSIGNMENT_STATUSES

LEMMA StatusesKnown ==
  /\ {"requested", "ready_for_assignment", "assigned"}
       \subseteq SERVICE_REQUEST_STATUSES \ {"draft"}
  /\ "intake_pending" \in LEGAL_MATTER_STATUSES
  BY DEF SERVICE_REQUEST_STATUSES, SERVICE_REQUEST_TRANSITIONS,
         LEGAL_MATTER_STATUSES, LEGAL_MATTER_TRANSITIONS

\* Which commands write a document of a kind.
RequestWritten(x, d) ==
    \E q \in ServiceRequests :
      /\ d = Request(q)
      /\ \/ CreatesRequest(x, q)
         \/ \E next \in SERVICE_REQUEST_STATUSES : MovesRequest(x, q, next)
         \/ \E b \in BOOLEAN : Engages(x, q, b)
         \/ \E n \in {1, 2}, b \in BOOLEAN : Assigns(x, q, n, b)

EngagementWritten(x, d) ==
    \E q \in ServiceRequests, b \in BOOLEAN :
      d = Engagement(q) /\ Engages(x, q, b)

AssignmentWritten(x, d) ==
    \E q \in ServiceRequests, n \in {1, 2}, b \in BOOLEAN :
      d = Assignment(q, n) /\ Assigns(x, q, n, b)

TaskWritten(x, t) ==
    \/ StartsTask(x, t)
    \/ /\ t \in Tasks
       /\ \/ RerunsTask(x, t)
          \/ \E o \in Outputs : Drafts(x, t, o)
          \/ \E u \in Users, decision \in Decisions :
               Reviews(x, t, u, decision)
          \/ \E u \in Users : Publishes(x, t, u)

RunWritten(x, d) ==
    \/ \E t : d = Run(t, 1) /\ StartsTask(x, t)
    \/ \E t \in Tasks :
         d = Run(t, document[t].runCount + 1) /\ RerunsTask(x, t)

PublicationWritten(x, d) ==
    \E t \in Tasks, u \in Users :
      /\ d = Publication(document[t].output, document[t].review)
      /\ Publishes(x, t, u)

MatterWritten(x, d) ==
    \E m \in Matters :
      /\ d = Matter(m)
      /\ \/ CreatesMatter(x, m)
         \/ \E next \in LEGAL_MATTER_STATUSES : MovesMatter(x, m, next)

ApprovalWritten(x, a) ==
    \/ \E m \in Matters, type \in APPROVAL_TYPES, u \in Officers :
         /\ a = Approval(m, type, Version(Matter(m)))
         /\ AsksApproval(x, m, type, u)
    \/ /\ a \in Approvals
       /\ \E u \in Officers, decision \in ApprovalDecisions :
            Decides(x, a, u, decision)

DecisionWritten(x, d) ==
    \E a \in Approvals, u \in Officers, decision \in ApprovalDecisions :
      d = Decision(a, u, decision) /\ Decides(x, a, u, decision)

LEMMA KindsWritten ==
  ASSUME NEW x, Preparable(x), NEW d \in DOMAIN x.writes
  PROVE  /\ d[1] = "request" => RequestWritten(x, d)
         /\ d[1] = "engagement" => EngagementWritten(x, d)
         /\ d[1] = "assignment" => AssignmentWritten(x, d)
         /\ d[1] = "task" => TaskWritten(x, d)
         /\ d[1] = "run" => RunWritten(x, d)
         /\ d[1] = "publication" => PublicationWritten(x, d)
         /\ d[1] = "matter" => MatterWritten(x, d)
         /\ d[1] = "approval" => ApprovalWritten(x, d)
         /\ d[1] = "decision" => DecisionWritten(x, d)
  <1> DEFINE Goal ==
         /\ d[1] = "request" => RequestWritten(x, d)
         /\ d[1] = "engagement" => EngagementWritten(x, d)
         /\ d[1] = "assignment" => AssignmentWritten(x, d)
         /\ d[1] = "task" => TaskWritten(x, d)
         /\ d[1] = "run" => RunWritten(x, d)
         /\ d[1] = "publication" => PublicationWritten(x, d)
         /\ d[1] = "matter" => MatterWritten(x, d)
         /\ d[1] = "approval" => ApprovalWritten(x, d)
         /\ d[1] = "decision" => DecisionWritten(x, d)
  <1>1. ASSUME NEW q \in ServiceRequests, CreatesRequest(x, q) PROVE Goal
    <2>1. d = Request(q) /\ d[1] = "request"
      BY <1>1 DEF CreatesRequest, One, Request
    <2> QED BY <1>1, <2>1 DEF RequestWritten
  <1>2. ASSUME NEW q \in ServiceRequests, NEW next \in SERVICE_REQUEST_STATUSES,
               MovesRequest(x, q, next)
        PROVE  Goal
    <2>1. d = Request(q) /\ d[1] = "request"
      BY <1>2 DEF MovesRequest, One, Request
    <2> QED BY <1>2, <2>1 DEF RequestWritten
  <1>3. ASSUME NEW q \in ServiceRequests, NEW b \in BOOLEAN, Engages(x, q, b)
        PROVE  Goal
    <2>1. \/ d = Request(q) /\ d[1] = "request"
          \/ d = Engagement(q) /\ d[1] = "engagement"
      BY <1>3 DEF Engages, Two, Request, Engagement
    <2> QED BY <1>3, <2>1 DEF RequestWritten, EngagementWritten
  <1>4. ASSUME NEW q \in ServiceRequests, NEW n \in {1, 2}, NEW b \in BOOLEAN,
               Assigns(x, q, n, b)
        PROVE  Goal
    <2>1. \/ d = Request(q) /\ d[1] = "request"
          \/ d = Assignment(q, n) /\ d[1] = "assignment"
      BY <1>4 DEF Assigns, Two, Request, Assignment
    <2> QED BY <1>4, <2>1 DEF RequestWritten, AssignmentWritten
  <1>5. ASSUME NEW t, StartsTask(x, t) PROVE Goal
    <2>1. \/ d = t /\ d[1] = "task"
          \/ d = Run(t, 1) /\ d[1] = "run"
      BY <1>5 DEF StartsTask, Two, Run
    <2> QED BY <1>5, <2>1 DEF TaskWritten, RunWritten
  <1>6. ASSUME NEW t \in Tasks, RerunsTask(x, t) PROVE Goal
    <2>1. \/ d = t /\ d[1] = "task"
          \/ d = Run(t, document[t].runCount + 1) /\ d[1] = "run"
      BY <1>6 DEF RerunsTask, Two, Run, Tasks
    <2> QED BY <1>6, <2>1 DEF TaskWritten, RunWritten
  <1>7. ASSUME NEW t \in Tasks, NEW o \in Outputs, Drafts(x, t, o) PROVE Goal
    <2>1. \/ d = t /\ d[1] = "task"
          \/ d[1] = "output"
      BY <1>7 DEF Drafts, Two, Draft, Tasks
    <2> QED BY <1>7, <2>1 DEF TaskWritten
  <1>8. ASSUME NEW t \in Tasks, NEW u \in Users, NEW decision \in Decisions,
               Reviews(x, t, u, decision)
        PROVE  Goal
    <2>1. \/ d = t /\ d[1] = "task"
          \/ d[1] = "review"
      BY <1>8 DEF Reviews, Two, Review, Tasks
    <2> QED BY <1>8, <2>1 DEF TaskWritten
  <1>9. ASSUME NEW t \in Tasks, NEW u \in Users, Publishes(x, t, u) PROVE Goal
    <2>1. \/ d = t /\ d[1] = "task"
          \/ /\ d = Publication(document[t].output, document[t].review)
             /\ d[1] = "publication"
      BY <1>9 DEF Publishes, Two, Publication, Tasks
    <2> QED BY <1>9, <2>1 DEF TaskWritten, PublicationWritten
  <1>10. ASSUME NEW m \in Matters, CreatesMatter(x, m) PROVE Goal
    <2>1. d = Matter(m) /\ d[1] = "matter"
      BY <1>10 DEF CreatesMatter, One, Matter
    <2> QED BY <1>10, <2>1 DEF MatterWritten
  <1>11. ASSUME NEW m \in Matters, NEW next \in LEGAL_MATTER_STATUSES,
                MovesMatter(x, m, next)
         PROVE  Goal
    <2>1. d = Matter(m) /\ d[1] = "matter"
      BY <1>11 DEF MovesMatter, One, Matter
    <2> QED BY <1>11, <2>1 DEF MatterWritten
  <1>12. ASSUME NEW m \in Matters, NEW type \in APPROVAL_TYPES,
                NEW u \in Officers, AsksApproval(x, m, type, u)
         PROVE  Goal
    <2>1. /\ d = Approval(m, type, Version(Matter(m)))
          /\ d[1] = "approval"
      BY <1>12 DEF AsksApproval, One, Approval
    <2> QED BY <1>12, <2>1 DEF ApprovalWritten
  <1>13. ASSUME NEW a \in Approvals, NEW u \in Officers,
                NEW decision \in ApprovalDecisions, Decides(x, a, u, decision)
         PROVE  Goal
    <2>1. \/ d = a /\ d[1] = "approval"
          \/ d = Decision(a, u, decision) /\ d[1] = "decision"
      BY <1>13 DEF Decides, Two, Decision, Approvals
    <2> QED BY <1>13, <2>1 DEF ApprovalWritten, DecisionWritten
  <1> QED
    BY <1>1, <1>2, <1>3, <1>4, <1>5, <1>6, <1>7, <1>8, <1>9, <1>10, <1>11,
       <1>12, <1>13
    DEF Preparable

-----------------------------------------------------------------------------
(* Documents keep their fields and stay in their tables.                   *)

\* What the commands write of a request and of a task.
LEMMA RequestWrites ==
  ASSUME Versioned, DocumentsStand, NEW x,
         NEW q \in ServiceRequests, RequestWritten(x, Request(q))
  PROVE  LET d == Request(q)
             y == x.writes[d] IN
         /\ d \in DOMAIN x.writes
         /\ RequestStands(y) /\ y.version = Version(d) + 1
         /\ x.event[1] = d
  <1> DEFINE d == Request(q)
             y == x.writes[d]
             Goal == /\ d \in DOMAIN x.writes
                     /\ RequestStands(y) /\ y.version = Version(d) + 1
                     /\ x.event[1] = d
  <1>0. \A p : Request(p) = d => p = q
    BY DEF Request
  <1>1. CASE CreatesRequest(x, q)
    <2>1. /\ x.writes = One(d, [version |-> 1, status |-> "requested",
                                assignment |-> None, eventCount |-> 1])
          /\ ~Exists(d) /\ x.event[1] = d
      BY <1>1 DEF CreatesRequest
    <2>2. d \in DOMAIN x.writes
          /\ y = [version |-> 1, status |-> "requested",
                  assignment |-> None, eventCount |-> 1]
      BY <2>1 DEF One
    <2>3. RequestStands(y)
      BY <2>2, StatusesKnown DEF RequestStands, RequestFields
    <2> QED BY <2>1, <2>2, <2>3, VersionFacts
  <1>2. ASSUME NEW next \in SERVICE_REQUEST_STATUSES, MovesRequest(x, q, next)
        PROVE  Goal
    <2>1. /\ Exists(d) /\ x.event[1] = d
          /\ next \in SERVICE_REQUEST_TRANSITIONS[document[d].status]
          /\ x.writes = One(d, Advanced([document[d] EXCEPT !.status = next]))
      BY <1>2 DEF MovesRequest, Transitionable
    <2>2. /\ d \in DOMAIN x.writes
          /\ y = Advanced([document[d] EXCEPT !.status = next])
      BY <2>1 DEF One
    <2>3. RequestStands(document[d]) /\ document[d].version \in Nat
          /\ Version(d) = document[d].version
      BY <2>1, VersionFacts
      DEF DocumentsStand, Stands, Request, Exists, Versioned
    <2>4. next \in SERVICE_REQUEST_STATUSES \ {"draft"}
      BY <2>1, <2>3, RequestTable DEF RequestStands
    <2>5. /\ DOMAIN y = RequestFields
          /\ y.version = document[d].version + 1
          /\ y.eventCount = document[d].version + 1
          /\ y.status = next
      BY <2>2, <2>3 DEF Advanced, RequestStands, RequestFields
    <2> QED BY <2>1, <2>2, <2>3, <2>4, <2>5 DEF RequestStands
  <1>3. ASSUME NEW b \in BOOLEAN, Engages(x, q, b)
        PROVE  Goal
    <2>1. /\ Exists(d) /\ x.event[1] = d
          /\ x.writes =
                Two(d, Advanced([document[d] EXCEPT
                                   !.status = "ready_for_assignment"]),
                    Engagement(q), [version |-> 1, budgeted |-> b])
      BY <1>3 DEF Engages
    <2>2. /\ d \in DOMAIN x.writes
          /\ y = Advanced([document[d] EXCEPT
                             !.status = "ready_for_assignment"])
      BY <2>1 DEF Two
    <2>3. RequestStands(document[d]) /\ document[d].version \in Nat
          /\ Version(d) = document[d].version
      BY <2>1, VersionFacts
      DEF DocumentsStand, Stands, Request, Exists, Versioned
    <2>5. /\ DOMAIN y = RequestFields
          /\ y.version = document[d].version + 1
          /\ y.eventCount = document[d].version + 1
          /\ y.status = "ready_for_assignment"
      BY <2>2, <2>3 DEF Advanced, RequestStands, RequestFields
    <2> QED BY <2>1, <2>2, <2>3, <2>5, StatusesKnown DEF RequestStands
  <1>4. ASSUME NEW n \in {1, 2}, NEW b \in BOOLEAN, Assigns(x, q, n, b)
        PROVE  Goal
    <2>1. /\ Exists(d) /\ x.event[1] = d
          /\ x.writes =
                Two(d, Advanced([document[d] EXCEPT
                                   !.status = "assigned",
                                   !.assignment = Assignment(q, n)]),
                    Assignment(q, n), [version |-> 1, billed |-> b])
      BY <1>4 DEF Assigns
    <2>2. /\ d \in DOMAIN x.writes
          /\ y = Advanced([document[d] EXCEPT
                             !.status = "assigned",
                             !.assignment = Assignment(q, n)])
      BY <2>1 DEF Two
    <2>3. RequestStands(document[d]) /\ document[d].version \in Nat
          /\ Version(d) = document[d].version
      BY <2>1, VersionFacts
      DEF DocumentsStand, Stands, Request, Exists, Versioned
    <2>5. /\ DOMAIN y = RequestFields
          /\ y.version = document[d].version + 1
          /\ y.eventCount = document[d].version + 1
          /\ y.status = "assigned"
      BY <2>2, <2>3 DEF Advanced, RequestStands, RequestFields
    <2> QED BY <2>1, <2>2, <2>3, <2>5, StatusesKnown DEF RequestStands
  <1> QED BY <1>0, <1>1, <1>2, <1>3, <1>4 DEF RequestWritten

\* A field that a command names is as it says, the others are as they were.
LEMMA TaskWrites ==
  ASSUME Versioned, DocumentsStand, NEW x, NEW t, TaskWritten(x, t)
  PROVE  LET v == document[t]
             y == x.writes[t] IN
         /\ t \in DOMAIN x.writes /\ t[1] = "task"
         /\ TaskStands(y) /\ y.version = Version(t) + 1
         /\ x.event[1] = t
         /\ StartsTask(x, t) =>
              y.runCount = 1 /\ y.status = "running"
         /\ RerunsTask(x, t) /\ t \in Tasks =>
              y.runCount = v.runCount + 1 /\ y.status = "running"
         /\ \A o \in Outputs : Drafts(x, t, o) =>
              /\ y.runCount = v.runCount
              /\ y.status = "waiting_human_review" /\ y.run = v.run
              /\ y.output = Draft(v.run, o)
         /\ \A u \in Users, decision \in Decisions :
              Reviews(x, t, u, decision) =>
                /\ y.runCount = v.runCount
                /\ y.status = decision /\ y.run = v.run
                /\ y.output = v.output
                /\ y.review = Review(v.output, u, decision)
         /\ \A u \in Users : Publishes(x, t, u) =>
              /\ y.runCount = v.runCount
              /\ y.status = "published" /\ y.run = v.run
              /\ y.output = v.output /\ y.review = v.review
              /\ y.publication = Publication(v.output, v.review)
  <1> DEFINE v == document[t]
             y == x.writes[t]
  <1>0. ASSUME t \in Tasks
        PROVE  /\ t[1] = "task" /\ TaskStands(v)
               /\ v.version \in Nat /\ Version(t) = v.version
               /\ Exists(t)
    BY <1>0, VersionFacts
    DEF DocumentsStand, Stands, Tasks, Exists, Versioned
  <1>1. ASSUME StartsTask(x, t)
        PROVE  /\ t \in DOMAIN x.writes /\ t[1] = "task"
               /\ TaskStands(y) /\ y.version = Version(t) + 1
               /\ x.event[1] = t
               /\ y.runCount = 1 /\ y.status = "running"
               /\ t \notin Tasks
    <2>1. /\ x.writes =
               Two(t, [version |-> 1, status |-> "running", runCount |-> 1,
                       run |-> Run(t, 1), output |-> None, review |-> None,
                       publication |-> None, eventCount |-> 1],
                   Run(t, 1), [version |-> 1, task |-> t])
          /\ ~Exists(t) /\ x.event[1] = t /\ t[1] = "task"
      BY <1>1 DEF StartsTask
    <2>2. /\ t \in DOMAIN x.writes
          /\ y = [version |-> 1, status |-> "running", runCount |-> 1,
                  run |-> Run(t, 1), output |-> None, review |-> None,
                  publication |-> None, eventCount |-> 1]
      BY <2>1 DEF Two
    <2>3. TaskStands(y)
      BY <2>2 DEF TaskStands, TaskFields, AGENT_TASK_STATUSES
    <2> QED BY <2>1, <2>2, <2>3, VersionFacts DEF Tasks, Exists
  <1>2. ASSUME t \in Tasks, RerunsTask(x, t)
        PROVE  /\ t \in DOMAIN x.writes
               /\ TaskStands(y) /\ y.version = Version(t) + 1
               /\ x.event[1] = t
               /\ y.runCount = v.runCount + 1 /\ y.status = "running"
    <2> DEFINE n == v.runCount + 1
    <2>1. /\ x.event[1] = t
          /\ x.writes =
               Two(t, Advanced([v EXCEPT !.status = "running",
                                         !.runCount = n, !.run = Run(t, n)]),
                   Run(t, n), [version |-> 1, task |-> t])
      BY <1>2 DEF RerunsTask
    <2>2. /\ t \in DOMAIN x.writes
          /\ y = Advanced([v EXCEPT !.status = "running",
                                    !.runCount = n, !.run = Run(t, n)])
      BY <2>1 DEF Two
    <2>3. n \in Nat
      BY <1>0, <1>2 DEF TaskStands
    <2> HIDE DEF n
    <2>4. /\ DOMAIN y = TaskFields
          /\ y.version = v.version + 1 /\ y.eventCount = v.version + 1
          /\ y.runCount = n /\ y.status = "running"
      BY <1>0, <1>2, <2>2 DEF Advanced, TaskStands, TaskFields
    <2> USE DEF n
    <2> QED
      BY <1>0, <1>2, <2>1, <2>2, <2>3, <2>4
      DEF TaskStands, AGENT_TASK_STATUSES
  <1>3. ASSUME t \in Tasks, NEW o \in Outputs, Drafts(x, t, o)
        PROVE  /\ t \in DOMAIN x.writes
               /\ TaskStands(y) /\ y.version = Version(t) + 1
               /\ x.event[1] = t
               /\ y.runCount = v.runCount
               /\ y.status = "waiting_human_review" /\ y.run = v.run
               /\ y.output = Draft(v.run, o)
    <2> DEFINE d == Draft(v.run, o)
    <2>1. /\ x.event[1] = t
          /\ x.writes =
               Two(t, Advanced([v EXCEPT !.status = "waiting_human_review",
                                         !.output = d]),
                   d, [version |-> 1, task |-> t, legal |-> o \in LegalOutputs])
      BY <1>3 DEF Drafts
    <2>2. /\ t \in DOMAIN x.writes
          /\ y = Advanced([v EXCEPT !.status = "waiting_human_review",
                                    !.output = d])
      BY <2>1 DEF Two
    <2> HIDE DEF d
    <2>4. /\ DOMAIN y = TaskFields
          /\ y.version = v.version + 1 /\ y.eventCount = v.version + 1
          /\ y.runCount = v.runCount /\ y.status = "waiting_human_review"
          /\ y.run = v.run /\ y.output = d
      BY <1>0, <1>3, <2>2 DEF Advanced, TaskStands, TaskFields
    <2> USE DEF d
    <2> QED
      BY <1>0, <1>3, <2>1, <2>2, <2>4 DEF TaskStands, AGENT_TASK_STATUSES
  <1>4. ASSUME t \in Tasks, NEW u \in Users, NEW decision \in Decisions,
               Reviews(x, t, u, decision)
        PROVE  /\ t \in DOMAIN x.writes
               /\ TaskStands(y) /\ y.version = Version(t) + 1
               /\ x.event[1] = t
               /\ y.runCount = v.runCount
               /\ y.status = decision /\ y.run = v.run
               /\ y.output = v.output
               /\ y.review = Review(v.output, u, decision)
    <2> DEFINE d == Review(v.output, u, decision)
    <2>1. /\ x.event[1] = t
          /\ x.writes =
               Two(t, Advanced([v EXCEPT !.status = decision, !.review = d]),
                   d, [version |-> 1, task |-> t])
      BY <1>4 DEF Reviews
    <2>2. /\ t \in DOMAIN x.writes
          /\ y = Advanced([v EXCEPT !.status = decision, !.review = d])
      BY <2>1 DEF Two
    <2> HIDE DEF d
    <2>4. /\ DOMAIN y = TaskFields
          /\ y.version = v.version + 1 /\ y.eventCount = v.version + 1
          /\ y.runCount = v.runCount /\ y.status = decision
          /\ y.run = v.run /\ y.output = v.output /\ y.review = d
      BY <1>0, <1>4, <2>2 DEF Advanced, TaskStands, TaskFields
    <2> USE DEF d
    <2> QED
      BY <1>0, <1>4, <2>1, <2>2, <2>4
      DEF TaskStands, AGENT_TASK_STATUSES, Decisions
  <1>5. ASSUME t \in Tasks, NEW u \in Users, Publishes(x, t, u)
        PROVE  /\ t \in DOMAIN x.writes
               /\ TaskStands(y) /\ y.version = Version(t) + 1
               /\ x.event[1] = t
               /\ y.runCount = v.runCount
               /\ y.status = "published" /\ y.run = v.run
               /\ y.output = v.output /\ y.review = v.review
               /\ y.publication = Publication(v.output, v.review)
    <2> DEFINE d == Publication(v.output, v.review)
    <2>1. /\ x.event[1] = t
          /\ x.writes =
               Two(t, Advanced([v EXCEPT !.status = "published",
                                         !.publication = d]),
                   d, [version |-> 1, task |-> t, by |-> u])
      BY <1>5 DEF Publishes
    <2>2. /\ t \in DOMAIN x.writes
          /\ y = Advanced([v EXCEPT !.status = "published",
                                    !.publication = d])
      BY <2>1 DEF Two
    <2> HIDE DEF d
    <2>4. /\ DOMAIN y = TaskFields
          /\ y.version = v.version + 1 /\ y.eventCount = v.version + 1
          /\ y.runCount = v.runCount /\ y.status = "published"
          /\ y.run = v.run /\ y.output = v.output /\ y.review = v.review
          /\ y.publication = d
      BY <1>0, <1>5, <2>2 DEF Advanced, TaskStands, TaskFields
    <2> USE DEF d
    <2> QED
      BY <1>0, <1>5, <2>1, <2>2, <2>4 DEF TaskStands, AGENT_TASK_STATUSES
  <1>6. StartsTask(x, t) \/ t \in Tasks
    BY DEF TaskWritten
  <1>7. /\ t \in DOMAIN x.writes /\ t[1] = "task"
        /\ TaskStands(y) /\ y.version = Version(t) + 1
        /\ x.event[1] = t
    BY <1>0, <1>1, <1>2, <1>3, <1>4, <1>5 DEF TaskWritten
  <1>8. t \notin Tasks => ~ \/ \E o \in Outputs : Drafts(x, t, o)
                            \/ \E u \in Users, decision \in Decisions :
                                 Reviews(x, t, u, decision)
                            \/ \E u \in Users : Publishes(x, t, u)
    BY DEF Drafts, Reviews, Publishes
  <1> QED BY <1>1, <1>2, <1>3, <1>4, <1>5, <1>6, <1>7, <1>8

\* What the commands write of a matter and of an approval.
LEMMA MatterWrites ==
  ASSUME Versioned, DocumentsStand, NEW x, NEW d, MatterWritten(x, d)
  PROVE  /\ d \in DOMAIN x.writes
         /\ x.writes[d].status \in LEGAL_MATTER_STATUSES
  <1>1. PICK m \in Matters :
          /\ d = Matter(m)
          /\ \/ CreatesMatter(x, m)
             \/ \E next \in LEGAL_MATTER_STATUSES : MovesMatter(x, m, next)
    BY DEF MatterWritten
  <1>2. CASE CreatesMatter(x, m)
    <2>1. x.writes = One(d, [version |-> 1, status |-> "intake_pending"])
      BY <1>1, <1>2 DEF CreatesMatter
    <2> QED BY <2>1, StatusesKnown DEF One
  <1>3. ASSUME NEW next \in LEGAL_MATTER_STATUSES, MovesMatter(x, m, next)
        PROVE  /\ d \in DOMAIN x.writes
               /\ x.writes[d].status \in LEGAL_MATTER_STATUSES
    <2>1. x.writes = One(d, [version |-> Version(d) + 1, status |-> next])
      BY <1>1, <1>3 DEF MovesMatter
    <2> QED BY <2>1 DEF One
  <1> QED BY <1>1, <1>2, <1>3

LEMMA ApprovalWrites ==
  ASSUME Versioned, DocumentsStand, NEW x, NEW a, ApprovalWritten(x, a)
  PROVE  LET y == x.writes[a] IN
         /\ a \in DOMAIN x.writes /\ ApprovalStands(y)
         /\ \A m \in Matters, type \in APPROVAL_TYPES, u \in Officers :
              /\ a = Approval(m, type, Version(Matter(m)))
              /\ AsksApproval(x, m, type, u)
              => y.status = "pending"
         /\ \A u \in Officers, decision \in ApprovalDecisions :
              Decides(x, a, u, decision) =>
                /\ y.version = Version(a) + 1 /\ y.status = decision
                /\ y.preparedBy = document[a].preparedBy
  <1> DEFINE v == document[a]
             y == x.writes[a]
  <1>1. ASSUME NEW m \in Matters, NEW type \in APPROVAL_TYPES,
               NEW u \in Officers, a = Approval(m, type, Version(Matter(m))),
               AsksApproval(x, m, type, u)
        PROVE  /\ a \in DOMAIN x.writes /\ ApprovalStands(y)
               /\ y.status = "pending"
    <2>1. x.writes = One(a, [version |-> 1, status |-> "pending",
                             preparedBy |-> u])
      BY <1>1 DEF AsksApproval
    <2>2. /\ a \in DOMAIN x.writes
          /\ y = [version |-> 1, status |-> "pending", preparedBy |-> u]
      BY <2>1 DEF One
    <2> QED BY <2>2 DEF ApprovalStands, ApprovalFields
  <1>2. ASSUME NEW u \in Officers, NEW decision \in ApprovalDecisions,
               Decides(x, a, u, decision)
        PROVE  /\ a \in DOMAIN x.writes /\ ApprovalStands(y)
               /\ y.version = Version(a) + 1 /\ y.status = decision
               /\ y.preparedBy = v.preparedBy
    <2>1. /\ x.writes = Two(a, [v EXCEPT !.version = @ + 1,
                                         !.status = decision],
                            Decision(a, u, decision), [version |-> 1])
          /\ a \in Approvals
      BY <1>2 DEF Decides
    <2>2. /\ a \in DOMAIN x.writes
          /\ y = [v EXCEPT !.version = @ + 1, !.status = decision]
      BY <2>1 DEF Two
    <2>3. ApprovalStands(v) /\ v.version \in Nat /\ Version(a) = v.version
      BY <2>1, VersionFacts
      DEF DocumentsStand, Stands, Approvals, Exists, Versioned
    <2> QED BY <2>2, <2>3 DEF ApprovalStands, ApprovalFields
  <1>3. \/ \E m \in Matters, type \in APPROVAL_TYPES, u \in Officers :
             /\ a = Approval(m, type, Version(Matter(m)))
             /\ AsksApproval(x, m, type, u)
        \/ \E u \in Officers, decision \in ApprovalDecisions :
             Decides(x, a, u, decision)
    BY DEF ApprovalWritten
  <1> QED BY <1>1, <1>2, <1>3

LEMMA StandsKept ==
  ASSUME StoreInv, DocumentsStand, NEW c \in Calls, Commits(c)
  PROVE  DocumentsStand'
  <1>1. /\ DOMAIN document' = DOMAIN document \cup DOMAIN call[c].writes
        /\ \A d \in DOMAIN call[c].writes : document'[d] = call[c].writes[d]
        /\ \A d : d \notin DOMAIN call[c].writes => Same(d)
        /\ Preparable(call[c]) /\ Versioned
    BY CommitEffect DEF StoreInv
  <1>2. ASSUME NEW d \in DOMAIN call[c].writes
        PROVE  Stands(d, call[c].writes[d])
    <2> DEFINE x == call[c]
    <2>1. /\ d[1] = "request" => RequestWritten(x, d)
          /\ d[1] = "task" => TaskWritten(x, d)
          /\ d[1] = "matter" => MatterWritten(x, d)
          /\ d[1] = "approval" => ApprovalWritten(x, d)
      BY <1>1, <1>2, KindsWritten
    <2>2. d[1] = "request" => RequestStands(x.writes[d])
      <3> HAVE d[1] = "request"
      <3>1. PICK q \in ServiceRequests : d = Request(q)
        BY <2>1 DEF RequestWritten
      <3> QED BY <1>1, <2>1, <3>1, RequestWrites
    <2>3. d[1] = "task" => TaskStands(x.writes[d])
      BY <1>1, <2>1, TaskWrites
    <2>4. d[1] = "matter" => x.writes[d].status \in LEGAL_MATTER_STATUSES
      BY <1>1, <2>1, MatterWrites
    <2>5. d[1] = "approval" => ApprovalStands(x.writes[d])
      BY <1>1, <2>1, ApprovalWrites
    <2> QED BY <2>2, <2>3, <2>4, <2>5 DEF Stands
  <1>3. ASSUME NEW d \in DOMAIN document'
        PROVE  Stands(d, document'[d])
    BY <1>1, <1>2, <1>3 DEF DocumentsStand, Same
  <1> QED BY <1>3 DEF DocumentsStand

LEMMA OutputsKept ==
  ASSUME StoreInv, DocumentsStand, OutputsStand, NEW c \in Calls, Commits(c)
  PROVE  OutputsStand'
  <1>1. /\ DOMAIN document' = DOMAIN document \cup DOMAIN call[c].writes
        /\ \A d \in DOMAIN call[c].writes : document'[d] = call[c].writes[d]
        /\ \A d : d \notin DOMAIN call[c].writes => Same(d)
        /\ \A d : Exists(d) => Exists(d)'
        /\ Preparable(call[c]) /\ Versioned
    BY CommitEffect DEF StoreInv
  <1> SUFFICES ASSUME NEW t \in Tasks',
                      document'[t].status
                        \in {"waiting_human_review", "approved", "published"}
               PROVE  /\ document'[t].output[1] = "output"
                      /\ document'[t].output \in DOMAIN document'
    BY DEF OutputsStand, Exists
  <1>2. CASE t \notin DOMAIN call[c].writes
    <2>1. t \in Tasks /\ document'[t] = document[t]
      BY <1>1, <1>2 DEF Same, Tasks
    <2> QED BY <1>1, <2>1 DEF OutputsStand, Exists
  <1>3. CASE t \in DOMAIN call[c].writes
    <2> DEFINE x == call[c]
               v == document[t]
               y == x.writes[t]
    <2>1. TaskWritten(x, t) /\ y = document'[t]
      BY <1>1, <1>3, KindsWritten DEF Tasks
    <2>2. ASSUME NEW o \in Outputs, Drafts(x, t, o), t \in Tasks
          PROVE  y.output[1] = "output" /\ y.output \in DOMAIN document'
      <3>1. y.output = Draft(v.run, o) /\ y.output \in DOMAIN x.writes
        <4>1. y.output = Draft(v.run, o)
          BY <1>1, <2>1, <2>2, TaskWrites
        <4>2. Draft(v.run, o) \in DOMAIN x.writes
          BY <2>2 DEF Drafts, Two
        <4> QED BY <4>1, <4>2
      <3> QED BY <1>1, <3>1 DEF Draft
    <2>3. ASSUME NEW u \in Users, NEW decision \in Decisions,
                 Reviews(x, t, u, decision), t \in Tasks
          PROVE  y.output[1] = "output" /\ y.output \in DOMAIN document'
      <3>1. y.output = v.output
        BY <1>1, <2>1, <2>3, TaskWrites
      <3>2. v.status = "waiting_human_review"
        BY <2>3 DEF Reviews
      <3> QED BY <1>1, <2>3, <3>1, <3>2 DEF OutputsStand, Exists
    <2>4. ASSUME NEW u \in Users, Publishes(x, t, u), t \in Tasks
          PROVE  y.output[1] = "output" /\ y.output \in DOMAIN document'
      <3>1. y.output = v.output
        BY <1>1, <2>1, <2>4, TaskWrites
      <3>2. v.status = "approved"
        BY <2>4 DEF Publishes
      <3> QED BY <1>1, <2>4, <3>1, <3>2 DEF OutputsStand, Exists
    <2>5. /\ StartsTask(x, t) => y.status = "running"
          /\ RerunsTask(x, t) /\ t \in Tasks => y.status = "running"
      BY <1>1, <2>1, TaskWrites
    <2> QED BY <2>1, <2>2, <2>3, <2>4, <2>5 DEF TaskWritten
  <1> QED BY <1>2, <1>3

-----------------------------------------------------------------------------
(* Preparing.  A step prepares a bundle that fits, commits one, or ends a  *)
(* call.                                                                   *)

\* A bundle on one document, on two, or on one with another that is compared.
LEMMA OrderedBundles ==
  ASSUME Versioned, NEW x, NEW d, NEW y
  PROVE  /\ /\ x.expects = One(d, Version(d)) /\ x.writes = One(d, y)
            /\ y.version = Version(d) + 1
            /\ d[1] \notin WrittenOnce
            => Ordered(x)
         /\ \A e, z :
              /\ x.expects = Two(d, Version(d), e, 0) /\ d # e
              /\ x.writes = Two(d, y, e, z)
              /\ y.version = Version(d) + 1 /\ z.version = 1
              /\ d[1] \notin WrittenOnce
              => Ordered(x)
         /\ \A e :
              /\ x.expects = Two(d, Version(d), e, 0) /\ d # e
              /\ x.writes = One(e, y)
              /\ y.version = 1
              => Ordered(x)
  <1>1. \A e : Version(e) \in Nat
    BY VersionFacts
  <1>2. ASSUME x.expects = One(d, Version(d)), x.writes = One(d, y),
               y.version = Version(d) + 1, d[1] \notin WrittenOnce
        PROVE  Ordered(x)
    BY <1>1, <1>2 DEF One, Ordered
  <1>3. ASSUME NEW e, NEW z, x.expects = Two(d, Version(d), e, 0), d # e,
               x.writes = Two(d, y, e, z),
               y.version = Version(d) + 1, z.version = 1,
               d[1] \notin WrittenOnce
        PROVE  Ordered(x)
    BY <1>1, <1>3 DEF Two, Ordered
  <1>4. ASSUME NEW e, x.expects = Two(d, Version(d), e, 0), d # e,
               x.writes = One(e, y), y.version = 1
        PROVE  Ordered(x)
    BY <1>1, <1>4 DEF One, Two, Ordered
  <1> QED BY <1>2, <1>3, <1>4

\* The versions a command writes are the next ones of what it compares.
LEMMA PreparableOrdered ==
  ASSUME Versioned, DocumentsStand, NEW x, Preparable(x)
  PROVE  Ordered(x)
  <1>1. ASSUME NEW q \in ServiceRequests, RequestWritten(x, Request(q))
        PROVE  /\ x.writes[Request(q)].version = Version(Request(q)) + 1
               /\ Request(q)[1] \notin WrittenOnce
    BY <1>1, RequestWrites DEF Request, WrittenOnce
  <1>2. ASSUME NEW t, TaskWritten(x, t)
        PROVE  /\ x.writes[t].version = Version(t) + 1
               /\ t[1] \notin WrittenOnce
    BY <1>2, TaskWrites DEF WrittenOnce
  <1>3. ASSUME NEW d, NEW y, x.expects = One(d, Version(d)),
               x.writes = One(d, y), x.writes[d].version = Version(d) + 1,
               d[1] \notin WrittenOnce
        PROVE  Ordered(x)
    <2>1. x.writes[d] = y
      BY <1>3 DEF One
    <2> QED BY <1>3, <2>1, OrderedBundles
  <1>4. ASSUME NEW d, NEW y, NEW e, NEW z, d # e,
               x.expects = Two(d, Version(d), e, 0),
               x.writes = Two(d, y, e, z),
               x.writes[d].version = Version(d) + 1, z.version = 1,
               d[1] \notin WrittenOnce
        PROVE  Ordered(x)
    <2>1. x.writes[d] = y
      BY <1>4 DEF Two
    <2> QED BY <1>4, <2>1, OrderedBundles
  <1>5. ASSUME NEW q \in ServiceRequests, CreatesRequest(x, q)
        PROVE  Ordered(x)
    <2>1. RequestWritten(x, Request(q))
      BY <1>5 DEF RequestWritten
    <2>2. Version(Request(q)) = 0
      BY <1>5, VersionFacts DEF CreatesRequest
    <2> QED BY <1>5, <2>1, <2>2, <1>1, <1>3 DEF CreatesRequest
  <1>6. ASSUME NEW q \in ServiceRequests, NEW next \in SERVICE_REQUEST_STATUSES,
               MovesRequest(x, q, next)
        PROVE  Ordered(x)
    <2>1. RequestWritten(x, Request(q))
      BY <1>6 DEF RequestWritten
    <2> QED BY <1>6, <2>1, <1>1, <1>3 DEF MovesRequest
  <1>7. ASSUME NEW q \in ServiceRequests, NEW b \in BOOLEAN, Engages(x, q, b)
        PROVE  Ordered(x)
    <2>1. RequestWritten(x, Request(q))
      BY <1>7 DEF RequestWritten
    <2>2. Request(q) # Engagement(q)
      BY DEF Request, Engagement
    <2> QED BY <1>7, <2>1, <2>2, <1>1, <1>4 DEF Engages
  <1>8. ASSUME NEW q \in ServiceRequests, NEW n \in {1, 2}, NEW b \in BOOLEAN,
               Assigns(x, q, n, b)
        PROVE  Ordered(x)
    <2>1. RequestWritten(x, Request(q))
      BY <1>8 DEF RequestWritten
    <2>2. Request(q) # Assignment(q, n)
      BY DEF Request, Assignment
    <2> QED BY <1>8, <2>1, <2>2, <1>1, <1>4 DEF Assigns
  <1>9. ASSUME NEW t, StartsTask(x, t)
        PROVE  Ordered(x)
    <2>1. TaskWritten(x, t)
      BY <1>9 DEF TaskWritten
    <2>2. t # Run(t, 1) /\ Version(t) = 0
      BY <1>9, VersionFacts DEF StartsTask, Run
    <2> QED BY <1>9, <2>1, <2>2, <1>2, <1>4 DEF StartsTask
  <1>10. ASSUME NEW t \in Tasks, RerunsTask(x, t)
         PROVE  Ordered(x)
    <2>1. TaskWritten(x, t)
      BY <1>10 DEF TaskWritten
    <2>2. t # Run(t, document[t].runCount + 1)
      BY DEF Run, Tasks
    <2> QED BY <1>10, <2>1, <2>2, <1>2, <1>4 DEF RerunsTask
  <1>11. ASSUME NEW t \in Tasks, NEW o \in Outputs, Drafts(x, t, o)
         PROVE  Ordered(x)
    <2>1. TaskWritten(x, t)
      BY <1>11 DEF TaskWritten
    <2>2. t # Draft(document[t].run, o)
      BY DEF Draft, Tasks
    <2> QED BY <1>11, <2>1, <2>2, <1>2, <1>4 DEF Drafts
  <1>12. ASSUME NEW t \in Tasks, NEW u \in Users, NEW decision \in Decisions,
                Reviews(x, t, u, decision)
         PROVE  Ordered(x)
    <2>1. TaskWritten(x, t)
      BY <1>12 DEF TaskWritten
    <2>2. t # Review(document[t].output, u, decision)
      BY DEF Review, Tasks
    <2> QED BY <1>12, <2>1, <2>2, <1>2, <1>4 DEF Reviews
  <1>13. ASSUME NEW t \in Tasks, NEW u \in Users, Publishes(x, t, u)
         PROVE  Ordered(x)
    <2>1. TaskWritten(x, t)
      BY <1>13 DEF TaskWritten
    <2>2. t # Publication(document[t].output, document[t].review)
      BY DEF Publication, Tasks
    <2> QED BY <1>13, <2>1, <2>2, <1>2, <1>4 DEF Publishes
  <1>14. ASSUME NEW m \in Matters, CreatesMatter(x, m)
         PROVE  Ordered(x)
    <2>1. Version(Matter(m)) = 0 /\ Matter(m)[1] \notin WrittenOnce
      BY <1>14, VersionFacts DEF CreatesMatter, Matter, WrittenOnce
    <2> QED BY <1>14, <2>1, OrderedBundles DEF CreatesMatter
  <1>15. ASSUME NEW m \in Matters, NEW next \in LEGAL_MATTER_STATUSES,
                MovesMatter(x, m, next)
         PROVE  Ordered(x)
    <2>1. Matter(m)[1] \notin WrittenOnce
      BY DEF Matter, WrittenOnce
    <2> QED BY <1>15, <2>1, OrderedBundles DEF MovesMatter
  <1>16. ASSUME NEW m \in Matters, NEW type \in APPROVAL_TYPES,
                NEW u \in Officers, AsksApproval(x, m, type, u)
         PROVE  Ordered(x)
    <2>1. Matter(m) # Approval(m, type, Version(Matter(m)))
      BY DEF Matter, Approval
    <2> DEFINE y == [version |-> 1, status |-> "pending", preparedBy |-> u]
    <2>2. /\ x.expects = Two(Matter(m), Version(Matter(m)),
                             Approval(m, type, Version(Matter(m))), 0)
          /\ x.writes = One(Approval(m, type, Version(Matter(m))), y)
          /\ y.version = 1
      BY <1>16 DEF AsksApproval
    <2> HIDE DEF y
    <2> QED BY <2>1, <2>2, OrderedBundles
  <1>17. ASSUME NEW a \in Approvals, NEW u \in Officers,
                NEW decision \in ApprovalDecisions, Decides(x, a, u, decision)
         PROVE  Ordered(x)
    <2>1. ApprovalWritten(x, a)
      BY <1>17 DEF ApprovalWritten
    <2>2. /\ a # Decision(a, u, decision) /\ a[1] \notin WrittenOnce
      BY DEF Decision, Approvals, WrittenOnce
    <2>3. x.writes[a].version = Version(a) + 1
      BY <1>17, <2>1, ApprovalWrites
    <2> QED BY <1>17, <2>2, <2>3, <1>4 DEF Decides
  <1> QED
    BY <1>5, <1>6, <1>7, <1>8, <1>9, <1>10, <1>11, <1>12, <1>13, <1>14, <1>15,
       <1>16, <1>17
    DEF Preparable

\* Nothing is written, and only c takes a step.
Waits(c) ==
    /\ UNCHANGED <<document, event, receipt, budget>>
    /\ DOMAIN call' = Calls
    /\ \A b \in Calls \ {c} : call'[b] = call[b]

LEMMA PrepareWaits ==
  ASSUME StoreInv, NEW c \in Calls, NEW op, NEW expects, NEW writes, NEW e,
         NEW r, Prepare(c, op, expects, writes, e, r)
  PROVE  Waits(c) /\ call'[c].pc = "prepared"
  BY DEF StoreInv, Prepare, Waits

\* A command commits its bundle, or prepares one.
LEMMA CommandSteps ==
  ASSUME StoreInv, NEW c \in Calls, ServicesNext(c) \/ MattersNext(c)
  PROVE  \/ Commits(c)
         \/ Waits(c) /\ call'[c].pc = "prepared" /\ Preparable(call'[c])
  <1>0. DOMAIN call = Calls
    BY DEF StoreInv
  <1> DEFINE x == call'[c]
  <1>1. ASSUME NEW q \in ServiceRequests, CreateServiceRequest(c, q)
        PROVE  CreatesRequest(x, q)
    BY <1>0, <1>1 DEF CreateServiceRequest, CreatesRequest, Prepare
  <1>2. ASSUME NEW q \in ServiceRequests, NEW r, NEW next,
               TransitionServiceRequest(c, q, r, next)
        PROVE  MovesRequest(x, q, next)
    BY <1>0, <1>2 DEF TransitionServiceRequest, MovesRequest, Prepare
  <1>3. ASSUME NEW q \in ServiceRequests, NEW r, NEW b,
               CreateServiceEngagement(c, q, r, b)
        PROVE  Engages(x, q, b)
    BY <1>0, <1>3 DEF CreateServiceEngagement, Engages, Prepare
  <1>4. ASSUME NEW q \in ServiceRequests, NEW r, NEW n, NEW b,
               CreateServiceAssignment(c, q, r, n, b)
        PROVE  Assigns(x, q, n, b)
    BY <1>0, <1>4 DEF CreateServiceAssignment, Assigns, Prepare
  <1>5. ASSUME NEW q \in ServiceRequests, NEW r, NEW k,
               StartAgentRun(c, q, r, k)
        PROVE  /\ Waits(c) /\ x.pc = "prepared"
               /\ \/ StartsTask(x, Task(q, r))
                  \/ Task(q, r) \in Tasks /\ RerunsTask(x, Task(q, r))
    <2> DEFINE t == Task(q, r)
               n == IF ~Exists(t) THEN 1 ELSE document[t].runCount + 1
               first == [version |-> 1, status |-> "running", runCount |-> 1,
                         run |-> Run(t, 1), output |-> None, review |-> None,
                         publication |-> None, eventCount |-> 1]
               next == Advanced([document[t] EXCEPT
                                   !.status = "running", !.runCount = n,
                                   !.run = Run(t, n)])
               y == IF ~Exists(t) THEN first ELSE next
    <2>1. /\ ~(~Exists(t)) =>
               document[t].status \in {"revision_requested", "failed"}
          /\ ~Exists(Run(t, n))
          /\ Prepare(c, "startAgentRun", Two(t, Version(t), Run(t, n), 0),
                     Two(t, y, Run(t, n), [version |-> 1, task |-> t]),
                     <<t, r, "run_started">>, <<"agent_run", q, r, k>>)
      BY <1>5, Zenon DEF StartAgentRun
    <2>2. Waits(c) /\ x.pc = "prepared"
      BY <2>1, PrepareWaits
    <2>3. /\ x.expects = Two(t, Version(t), Run(t, n), 0)
          /\ x.writes = Two(t, y, Run(t, n), [version |-> 1, task |-> t])
          /\ x.event = <<t, r, "run_started">>
      <3> HIDE DEF y, n, t
      <3> QED BY <1>0, <2>1 DEF Prepare
    <2>4. ASSUME ~Exists(t) PROVE StartsTask(x, t)
      <3>1. Version(t) = 0 /\ t[1] = "task"
        BY <2>4 DEF Version, Exists, Task
      <3>2. n = 1 /\ y = first
        BY <2>4
      <3>3. ~Exists(Run(t, 1))
        BY <2>1, <3>2
      <3>4. x.expects = Two(t, 0, Run(t, 1), 0)
        BY <2>3, <3>1, <3>2
      <3>5. x.writes = Two(t, first, Run(t, 1), [version |-> 1, task |-> t])
        BY <2>3, <3>2
      <3>6. x.event[1] = t /\ x.event[3] = "run_started"
        BY <2>3
      <3> HIDE DEF y, n, t, next
      <3>7. StartsTask(x, t)
        BY <2>4, <3>1, <3>3, <3>4, <3>5, <3>6 DEF StartsTask
      <3> QED BY <3>7
    <2>5. ASSUME Exists(t) PROVE t \in Tasks /\ RerunsTask(x, t)
      <3>1. t \in Tasks
        BY <2>5 DEF Tasks, Task, Exists
      <3>2. n = document[t].runCount + 1 /\ y = next
        BY <2>5
      <3>4. y = Advanced([document[t] EXCEPT
                            !.status = "running",
                            !.runCount = document[t].runCount + 1,
                            !.run = Run(t, document[t].runCount + 1)])
        BY <3>2
      <3>5. document[t].status \in {"revision_requested", "failed"}
        BY <2>1, <2>5
      <3> HIDE DEF y, n, t, first
      <3>3. RerunsTask(x, t)
        BY <2>1, <2>3, <3>1, <3>2, <3>4, <3>5 DEF RerunsTask
      <3> QED BY <3>1, <3>3
    <2> QED BY <2>4, <2>5, <2>2
  <1>6. ASSUME NEW t \in Tasks, NEW r, NEW o, RecordAgentOutput(c, t, r, o)
        PROVE  /\ Waits(c) /\ x.pc = "prepared"
               /\ Drafts(x, t, o)
    <2>1. Waits(c) /\ x.pc = "prepared"
      BY <1>6, PrepareWaits DEF RecordAgentOutput
    <2>2. Drafts(x, t, o)
      BY <1>0, <1>6 DEF RecordAgentOutput, Drafts, Prepare
    <2> QED BY <2>1, <2>2
  <1>7. ASSUME NEW t \in Tasks, NEW r, NEW u, NEW decision,
               RecordAgentReview(c, t, r, document[t].output, u, decision)
        PROVE  /\ Waits(c) /\ x.pc = "prepared"
               /\ Reviews(x, t, u, decision)
    <2>1. Waits(c) /\ x.pc = "prepared"
      BY <1>7, PrepareWaits DEF RecordAgentReview
    <2>2. Reviews(x, t, u, decision)
      BY <1>0, <1>7 DEF RecordAgentReview, Reviews, Prepare
    <2> QED BY <2>1, <2>2
  <1>8. ASSUME NEW t \in Tasks, NEW r, NEW u,
               PublishAgentOutput(c, t, r, document[t].output,
                                  document[t].review, u)
        PROVE  /\ Waits(c) /\ x.pc = "prepared"
               /\ Publishes(x, t, u)
    <2>1. Waits(c) /\ x.pc = "prepared"
      BY <1>8, PrepareWaits DEF PublishAgentOutput
    <2>2. Publishes(x, t, u)
      BY <1>0, <1>8 DEF PublishAgentOutput, Publishes, Prepare
    <2> QED BY <2>1, <2>2
  <1>9. ASSUME NEW m \in Matters, CreateLegalMatter(c, m)
        PROVE  CreatesMatter(x, m)
    BY <1>0, <1>9 DEF CreateLegalMatter, CreatesMatter, Prepare
  <1>10. ASSUME NEW m \in Matters, NEW r, NEW next,
                TransitionLegalMatter(c, m, r, next)
         PROVE  MovesMatter(x, m, next)
    BY <1>0, <1>10 DEF TransitionLegalMatter, MovesMatter, Prepare
  <1>11. ASSUME NEW m \in Matters, NEW r, NEW type, NEW u,
                CreateApprovalRequest(c, m, r, type, u)
         PROVE  AsksApproval(x, m, type, u)
    BY <1>0, <1>11 DEF CreateApprovalRequest, AsksApproval, Prepare
  <1>12. ASSUME NEW a \in Approvals, NEW r, NEW u, NEW decision,
                RecordApprovalDecision(c, a, r, u, decision)
         PROVE  Decides(x, a, u, decision)
    BY <1>0, <1>12 DEF RecordApprovalDecision, Decides, Prepare
  <1>13. ASSUME NEW q \in ServiceRequests, RequestCommands(c, q)
         PROVE  Waits(c) /\ x.pc = "prepared" /\ Preparable(x)
    <2>1. Waits(c) /\ x.pc = "prepared"
      BY PrepareWaits, <1>13
      DEF RequestCommands, CreateServiceRequest, TransitionServiceRequest,
          CreateServiceEngagement, CreateServiceAssignment
    <2>2. Preparable(x)
      BY <1>1, <1>2, <1>3, <1>4, <1>13 DEF RequestCommands, Preparable
    <2> QED BY <2>1, <2>2
  <1>14. ASSUME NEW q \in ServiceRequests, AgentCommands(c, q)
         PROVE  Waits(c) /\ x.pc = "prepared" /\ Preparable(x)
    <2>1. Waits(c) /\ x.pc = "prepared"
      BY <1>5, <1>6, <1>7, <1>8, <1>14 DEF AgentCommands
    <2>2. Preparable(x)
      BY <1>5, <1>6, <1>7, <1>8, <1>14 DEF AgentCommands, Preparable
    <2> QED BY <2>1, <2>2
  <1>15. ASSUME NEW m \in Matters, MatterCommands(c, m)
         PROVE  Waits(c) /\ x.pc = "prepared" /\ Preparable(x)
    <2>1. Waits(c) /\ x.pc = "prepared"
      BY PrepareWaits, <1>15, ZenonT(30)
      DEF MatterCommands, CreateLegalMatter, TransitionLegalMatter,
          CreateApprovalRequest, RecordApprovalDecision
    <2>2. Preparable(x)
      BY <1>9, <1>10, <1>11, <1>12, <1>15 DEF MatterCommands, Preparable
    <2> QED BY <2>1, <2>2
  <1> QED
    BY <1>13, <1>14, <1>15
    DEF ServicesNext, MattersNext, Commits, CreateServiceRequestAtomic,
        TransitionServiceRequestAtomic, CreateServiceEngagementAtomic,
        CreateServiceAssignmentAtomic, CreateAgentRunAtomic,
        CreateAgentOutputDraftAtomic, RecordAgentHumanReviewAtomic,
        PublishAgentOutputAtomic, CreateLegalMatterAtomic,
        TransitionLegalMatterAtomic, CreateApprovalRequestAtomic,
        RecordApprovalDecisionAtomic

LEMMA Steps ==
  ASSUME StoreInv, CommandsNext
  PROVE  \E c \in Calls :
           \/ Commits(c)
           \/ /\ Waits(c)
              /\ \/ call'[c].pc \in {"idle", "collided"}
                 \/ call'[c].pc = "prepared" /\ Preparable(call'[c])
  <1>0. DOMAIN call = Calls
    BY DEF StoreInv
  <1>1. PICK c \in Calls : \/ ServicesNext(c) \/ MattersNext(c)
                           \/ Refuse(c) \/ End(c)
    BY DEF CommandsNext
  <1>2. CASE Refuse(c) \/ End(c)
    <2>1. Waits(c)
      BY <1>0, <1>2 DEF Refuse, End, Waits
    <2>2. CASE End(c)
      BY <1>0, <2>1, <2>2 DEF End, Idle
    <2>3. CASE Refuse(c)
      <3> DEFINE collides == call[c].receipt \notin receipt /\ AsExpected(c)
      <3>1. call'[c] = IF collides
                       THEN [call[c] EXCEPT !.pc = "collided"] ELSE Idle
        BY <1>0, <2>3 DEF Refuse
      <3>2. [call[c] EXCEPT !.pc = "collided"].pc \in {"idle", "collided"}
        BY <2>3 DEF Refuse, StoreInv
      <3> HIDE DEF collides
      <3>3. call'[c].pc \in {"idle", "collided"}
        BY <3>1, <3>2 DEF Idle
      <3> QED BY <2>1, <3>3
    <2> QED BY <1>2, <2>2, <2>3
  <1>3. CASE ServicesNext(c) \/ MattersNext(c)
    BY <1>3, CommandSteps
  <1> QED BY <1>1, <1>2, <1>3

\* A commit leaves the bundles of the other calls fitting.
LEMMA FitsKept ==
  ASSUME StoreInv, OutputsStand, NEW c \in Calls, Commits(c), NEW x, Fits(x)
  PROVE  Fits(x)'
  <1>1. /\ \A d : Version(d)' >= Version(d)
        /\ \A d : Version(d)' = Version(d) => Same(d)
        /\ \A d : d[1] \in WrittenOnce /\ Exists(d) => Same(d)
    BY CommitEffect
  <1>2. \A d : Version(d) \in Nat
    BY VersionFacts DEF StoreInv
  <1>3. \A d : Version(d)' \in Nat
    BY VersionsKept DEF Versioned, Version
  <1>4. Ordered(x)'
    <2>1. \A d \in DOMAIN x.expects :
            x.expects[d] \in Nat /\ x.expects[d] <= Version(d)'
      BY <1>1, <1>2, <1>3 DEF Fits, Ordered
    <2> QED BY <2>1 DEF Fits, Ordered
  <1>5. ASSUME AllAsExpected(x)'
        PROVE  Preparable(x)'
    <2>1. \A d \in DOMAIN x.expects : Version(d)' = x.expects[d]
      BY <1>5 DEF AllAsExpected
    <2>2. \A d \in DOMAIN x.expects : Version(d) = x.expects[d]
      BY <2>1, <1>1, <1>2 DEF Fits, Ordered
    <2>3. \A d \in DOMAIN x.expects : Same(d)
      BY <2>1, <2>2, <1>1
    <2>4. Preparable(x)
      BY <2>2 DEF Fits, AllAsExpected
    <2> QED BY <2>3, <2>4, <1>1, StillPreparable
  <1> QED BY <1>4, <1>5 DEF Fits

StoreStands == StoreInv /\ DocumentsStand /\ OutputsStand

LEMMA StoreSteps ==
  ASSUME StoreStands, CommandsNext
  PROVE  StoreStands'
  <1>1. StoreInv /\ DocumentsStand /\ OutputsStand
    BY DEF StoreStands
  <1>2. PICK c \in Calls :
          \/ Commits(c)
          \/ /\ Waits(c)
             /\ \/ call'[c].pc \in {"idle", "collided"}
                \/ call'[c].pc = "prepared" /\ Preparable(call'[c])
    BY <1>1, Steps
  <1>3. CASE Commits(c)
    <2>1. DocumentsStand' /\ OutputsStand' /\ Versioned'
      BY <1>1, <1>3, StandsKept, OutputsKept, VersionsKept
    <2>2. call' = [call EXCEPT ![c] = Idle] /\ budget' = budget
      BY <1>3 DEF Commits, Commit
    <2>3. DOMAIN call' = Calls /\ StoreTypeOK'
      BY <1>1, <2>1, <2>2 DEF StoreInv, StoreTypeOK, Versioned, Idle
    <2>4. ASSUME NEW b \in Calls, NEW x, x = call'[b], x.pc = "prepared"
          PROVE  Fits(x)'
      <3>1. b # c /\ x = call[b]
        BY <1>1, <2>2, <2>4 DEF StoreInv, Idle
      <3>2. Fits(x)
        BY <1>1, <2>4, <3>1 DEF StoreInv
      <3> QED BY <1>1, <1>3, <3>2, FitsKept
    <2> QED BY <2>1, <2>3, <2>4 DEF StoreStands, StoreInv
  <1>4. ASSUME Waits(c), \/ call'[c].pc \in {"idle", "collided"}
                         \/ call'[c].pc = "prepared" /\ Preparable(call'[c])
        PROVE  StoreStands'
    <2>1. /\ document' = document /\ event' = event
          /\ receipt' = receipt /\ budget' = budget
          /\ DOMAIN call' = Calls
          /\ \A b \in Calls \ {c} : call'[b] = call[b]
      BY <1>4 DEF Waits
    <2>2. DocumentsStand' /\ OutputsStand' /\ Versioned'
      <3>1. DocumentsStand' /\ OutputsStand'
        BY <1>1, <2>1 DEF DocumentsStand, OutputsStand, Tasks, Exists
      <3>2. Versioned'
        BY <1>1, <2>1 DEF StoreInv, Versioned
      <3> QED BY <3>1, <3>2
    <2>3. StoreTypeOK'
      BY <1>1, <1>4, <2>1 DEF StoreInv, StoreTypeOK
    <2>4. ASSUME NEW b \in Calls, NEW x, x = call'[b], x.pc = "prepared"
          PROVE  Fits(x)
      <3>1. CASE b # c
        BY <1>1, <2>1, <2>4, <3>1 DEF StoreInv
      <3>2. CASE b = c
        <4>1. Preparable(x)
          BY <1>4, <2>4, <3>2
        <4>2. Ordered(x)
          BY <1>1, <4>1, PreparableOrdered DEF StoreInv
        <4> QED BY <4>1, <4>2 DEF Fits
      <3> QED BY <3>1, <3>2
    <2>5. ASSUME NEW x, Fits(x)
          PROVE  Fits(x)'
      <3>1. /\ \A d : Version(d)' = Version(d)
            /\ \A d : Same(d)
        BY <2>1 DEF Version, Same, Exists
      <3>2. Ordered(x)'
        BY <2>5, <3>1 DEF Fits, Ordered
      <3>3. AllAsExpected(x)' => Preparable(x)'
        BY <1>1, <2>5, <3>1, StillPreparable DEF Fits, AllAsExpected
      <3> QED BY <3>2, <3>3 DEF Fits
    <2> QED BY <2>1, <2>2, <2>3, <2>4, <2>5 DEF StoreStands, StoreInv
  <1> QED BY <1>2, <1>3, <1>4

-----------------------------------------------------------------------------
(* Bundles are whole.                                                      *)

Ledger ==
    /\ \A d : d[1] \in {"request", "task"} =>
         Cardinality(EventsOf(d)) = Version(d)
    /\ \A d : d[1] = "matter" =>
         Cardinality(EventsOfType(d, "legal_matter_status_changed"))
           = IF Exists(d) THEN Version(d) - 1 ELSE 0
    /\ \A t : t[1] = "task" =>
         Cardinality(RunsOf(t)) = IF Exists(t) THEN document[t].runCount ELSE 0

\* The event of a bundle tells what it changes.
EventTells(x) ==
    /\ \A d : d[1] \in {"request", "task"} =>
         (d \in DOMAIN x.writes <=> x.event[1] = d)
    /\ \A d : d[1] = "matter" =>
         (d \in DOMAIN x.writes /\ Exists(d) <=>
            x.event[1] = d /\ x.event[3] = "legal_matter_status_changed")

LEMMA BundleEvents ==
  ASSUME NEW x, Preparable(x)
  PROVE  EventTells(x)
  <1>1. ASSUME NEW q \in ServiceRequests, CreatesRequest(x, q)
        PROVE  EventTells(x)
    BY <1>1 DEF CreatesRequest, EventTells, One, Request
  <1>2. ASSUME NEW q \in ServiceRequests, NEW next \in SERVICE_REQUEST_STATUSES,
               MovesRequest(x, q, next)
        PROVE  EventTells(x)
    BY <1>2 DEF MovesRequest, EventTells, One, Request
  <1>3. ASSUME NEW q \in ServiceRequests, NEW b \in BOOLEAN, Engages(x, q, b)
        PROVE  EventTells(x)
    BY <1>3 DEF Engages, EventTells, Two, Request, Engagement
  <1>4. ASSUME NEW q \in ServiceRequests, NEW n \in {1, 2}, NEW b \in BOOLEAN,
               Assigns(x, q, n, b)
        PROVE  EventTells(x)
    BY <1>4 DEF Assigns, EventTells, Two, Request, Assignment
  <1>5. ASSUME NEW t, StartsTask(x, t)
        PROVE  EventTells(x)
    BY <1>5 DEF StartsTask, EventTells, Two, Run
  <1>6. ASSUME NEW t \in Tasks, RerunsTask(x, t)
        PROVE  EventTells(x)
    BY <1>6 DEF RerunsTask, EventTells, Two, Run, Tasks
  <1>7. ASSUME NEW t \in Tasks, NEW o \in Outputs, Drafts(x, t, o)
        PROVE  EventTells(x)
    BY <1>7 DEF Drafts, EventTells, Two, Draft, Tasks
  <1>8. ASSUME NEW t \in Tasks, NEW u \in Users, NEW decision \in Decisions,
               Reviews(x, t, u, decision)
        PROVE  EventTells(x)
    BY <1>8 DEF Reviews, EventTells, Two, Review, Tasks
  <1>9. ASSUME NEW t \in Tasks, NEW u \in Users, Publishes(x, t, u)
        PROVE  EventTells(x)
    BY <1>9 DEF Publishes, EventTells, Two, Publication, Tasks
  <1>10. ASSUME NEW m \in Matters, CreatesMatter(x, m)
         PROVE  EventTells(x)
    BY <1>10 DEF CreatesMatter, EventTells, One, Matter, Exists
  <1>11. ASSUME NEW m \in Matters, NEW next \in LEGAL_MATTER_STATUSES,
                MovesMatter(x, m, next)
         PROVE  EventTells(x)
    BY <1>11 DEF MovesMatter, EventTells, One, Matter, Exists
  <1>12. ASSUME NEW m \in Matters, NEW type \in APPROVAL_TYPES,
                NEW u \in Officers, AsksApproval(x, m, type, u)
         PROVE  EventTells(x)
    BY <1>12 DEF AsksApproval, EventTells, One, Matter, Approval
  <1>13. ASSUME NEW a \in Approvals, NEW u \in Officers,
                NEW decision \in ApprovalDecisions, Decides(x, a, u, decision)
         PROVE  EventTells(x)
    BY <1>13 DEF Decides, EventTells, Two, Decision, Matter, Approvals
  <1> QED
    BY <1>1, <1>2, <1>3, <1>4, <1>5, <1>6, <1>7, <1>8, <1>9, <1>10, <1>11,
       <1>12, <1>13
    DEF Preparable

\* A set that gains an element or none.
LEMMA OneMore ==
  ASSUME NEW S, NEW T, NEW e, IsFiniteSet(S), e \notin S
  PROVE  /\ T = S \cup {e} => Cardinality(T) = Cardinality(S) + 1
         /\ T = S => Cardinality(T) = Cardinality(S)
         /\ Cardinality(S) \in Nat
  BY FS_AddElement, FS_CardinalityType

LEMMA LedgerKept ==
  ASSUME StoreStands, Ledger, NEW c \in Calls, Commits(c)
  PROVE  Ledger'
  <1> DEFINE x == call[c]
             e == call[c].event
             w == call[c].writes
             moved == "legal_matter_status_changed"
  <1>1. StoreInv /\ DocumentsStand /\ OutputsStand /\ Versioned
    BY DEF StoreStands, StoreInv
  <1>2. /\ Ordered(x) /\ Preparable(x)
        /\ DOMAIN document' = DOMAIN document \cup DOMAIN w
        /\ \A d \in DOMAIN w : document'[d] = w[d]
        /\ \A d : d \notin DOMAIN w => Same(d)
        /\ \A d : d[1] \in WrittenOnce /\ Exists(d) => Same(d)
    BY <1>1, CommitEffect
  <1>3. event' = event \cup {e} /\ e \notin event
    BY DEF Commits, Commit
  <1>4. EventTells(x)
    BY <1>2, BundleEvents
  <1>5. \A d : Version(d) \in Nat /\ (Version(d) = 0 <=> ~Exists(d))
    BY <1>1, VersionFacts
  <1>6. \A d \in DOMAIN w : Version(d)' = Version(d) + 1
    <2> SUFFICES ASSUME NEW d \in DOMAIN w PROVE Version(d)' = Version(d) + 1
      OBVIOUS
    <2>1. /\ d \in DOMAIN x.expects
          /\ w[d].version = x.expects[d] + 1
      BY <1>2 DEF Ordered
    <2>2. Version(d) = x.expects[d]
      BY <2>1 DEF Commits, Commit, AsExpected
    <2> QED BY <1>2, <2>1, <2>2 DEF Version
  <1>7. \A d : d \notin DOMAIN w => Version(d)' = Version(d)
    BY <1>2 DEF Same, Version, Exists
  <1>8. ASSUME NEW d
        PROVE  /\ IsFiniteSet(EventsOf(d)) /\ e \notin EventsOf(d)
               /\ EventsOf(d)' = IF e[1] = d THEN EventsOf(d) \cup {e}
                                 ELSE EventsOf(d)
    <2>1. EventsOf(d) \subseteq event /\ IsFiniteSet(event)
      BY <1>1 DEF EventsOf, Versioned
    <2> QED BY <1>3, <2>1, FS_Subset DEF EventsOf
  <1>9. ASSUME NEW d, d[1] \in {"request", "task"}
        PROVE  Cardinality(EventsOf(d)') = Version(d)'
    <2>1. Cardinality(EventsOf(d)) = Version(d)
      BY <1>9 DEF Ledger
    <2>2. CASE d \in DOMAIN w
      <3>1. EventsOf(d)' = EventsOf(d) \cup {e}
        BY <1>4, <1>8, <1>9, <2>2 DEF EventTells
      <3> QED BY <1>6, <1>8, <2>1, <2>2, <3>1, OneMore
    <2>3. CASE d \notin DOMAIN w
      <3>1. EventsOf(d)' = EventsOf(d)
        BY <1>4, <1>8, <1>9, <2>3 DEF EventTells
      <3> QED BY <1>7, <2>1, <2>3, <3>1
    <2> QED BY <2>2, <2>3
  <1>10. ASSUME NEW d, d[1] = "matter"
         PROVE  Cardinality(EventsOfType(d, moved)')
                  = IF Exists(d)' THEN Version(d)' - 1 ELSE 0
    <2> DEFINE S == EventsOfType(d, moved)
    <2>1. Cardinality(S) = IF Exists(d) THEN Version(d) - 1 ELSE 0
      BY <1>10 DEF Ledger
    <2>2. /\ IsFiniteSet(S) /\ e \notin S
          /\ S' = IF e[1] = d /\ e[3] = moved THEN S \cup {e} ELSE S
      <3>1. IsFiniteSet(S) /\ e \notin S
        BY <1>8, FS_Subset DEF EventsOfType
      <3> QED BY <1>8, <3>1 DEF EventsOfType
    <2>3. CASE d \in DOMAIN w /\ Exists(d)
      <3>1. S' = S \cup {e}
        BY <1>4, <1>10, <2>2, <2>3 DEF EventTells
      <3>2. Cardinality(S') = Cardinality(S) + 1
        BY <2>2, <3>1, OneMore
      <3>3. Exists(d)' /\ Version(d)' = Version(d) + 1
        BY <1>2, <1>6, <2>3 DEF Exists
      <3> QED BY <1>5, <2>1, <2>3, <3>2, <3>3
    <2>4. CASE ~(d \in DOMAIN w /\ Exists(d))
      <3>1. S' = S
        BY <1>4, <1>10, <2>2, <2>4 DEF EventTells
      <3>2. Cardinality(S') = Cardinality(S)
        BY <2>2, <3>1
      <3>3. CASE d \notin DOMAIN w
        <4>1. (Exists(d)' <=> Exists(d)) /\ Version(d)' = Version(d)
          BY <1>2, <1>7, <3>3 DEF Exists, Same
        <4> QED BY <2>1, <3>2, <4>1
      <3>4. CASE d \in DOMAIN w /\ ~Exists(d)
        <4>1. Version(d)' = 1
          BY <1>5, <1>6, <3>4
        <4> QED BY <2>1, <3>2, <3>4, <4>1
      <3> QED BY <2>4, <3>3, <3>4
    <2> QED BY <2>3, <2>4
  <1>11. ASSUME NEW t, t[1] = "task"
         PROVE  Cardinality(RunsOf(t)')
                  = IF Exists(t)' THEN document'[t].runCount ELSE 0
    <2>1. Cardinality(RunsOf(t))
            = IF Exists(t) THEN document[t].runCount ELSE 0
      BY <1>11 DEF Ledger
    <2>2. IsFiniteSet(RunsOf(t))
      <3>1. RunsOf(t) \subseteq DOMAIN document /\ IsFiniteSet(DOMAIN document)
        BY <1>1 DEF RunsOf, Versioned
      <3> QED BY <3>1, FS_Subset
    <2>3. Exists(t) => TaskStands(document[t])
      BY <1>1, <1>11 DEF DocumentsStand, Stands, Exists
    \* A run that a commit adds is one of the task that it starts or reruns.
    <2>4. ASSUME NEW r, r \in RunsOf(t)' \/ r \in RunsOf(t)
          PROVE  \/ r \in RunsOf(t)' /\ r \in RunsOf(t)
                 \/ /\ r \in DOMAIN w /\ r[1] = "run" /\ w[r].task = t
                    /\ ~Exists(r)
      <3>1. r[1] = "run"
        BY <2>4 DEF RunsOf
      <3>2. CASE Exists(r)
        <4>1. Same(r)
          BY <1>2, <3>1, <3>2 DEF WrittenOnce
        <4> QED BY <2>4, <3>2, <4>1 DEF RunsOf, Same, Exists
      <3>3. CASE ~Exists(r)
        <4>1. r \in DOMAIN document' /\ document'[r].task = t
          BY <2>4, <3>3 DEF RunsOf, Exists
        <4>2. r \in DOMAIN w
          BY <1>2, <3>3, <4>1 DEF Exists
        <4> QED BY <1>2, <3>1, <3>3, <4>1, <4>2
      <3> QED BY <3>2, <3>3
    <2>5. ASSUME NEW r \in DOMAIN w, r[1] = "run", w[r].task = t
          PROVE  \/ r = Run(t, 1) /\ StartsTask(x, t)
                 \/ /\ t \in Tasks /\ RerunsTask(x, t)
                    /\ r = Run(t, document[t].runCount + 1)
      <3>1. RunWritten(x, r)
        BY <1>2, <2>5, KindsWritten
      <3>2. ASSUME NEW s, r = Run(s, 1), StartsTask(x, s)
            PROVE  s = t
        <4>1. w = Two(s, [version |-> 1, status |-> "running",
                          runCount |-> 1, run |-> Run(s, 1),
                          output |-> None, review |-> None,
                          publication |-> None, eventCount |-> 1],
                      Run(s, 1), [version |-> 1, task |-> s])
          BY <3>2 DEF StartsTask
        <4>2. s # r
          BY <3>2, <2>5 DEF StartsTask
        <4>3. w[r] = [version |-> 1, task |-> s]
          BY <4>1, <4>2, <3>2 DEF Two
        <4> QED BY <2>5, <4>3
      <3>3. ASSUME NEW s \in Tasks, r = Run(s, document[s].runCount + 1),
                   RerunsTask(x, s)
            PROVE  s = t
        <4> DEFINE n == document[s].runCount + 1
                   y == Advanced([document[s] EXCEPT
                                    !.status = "running", !.runCount = n,
                                    !.run = Run(s, n)])
        <4>1. w = Two(s, y, Run(s, n), [version |-> 1, task |-> s])
          BY <3>3 DEF RerunsTask
        <4>2. s # r
          BY <2>5 DEF Tasks
        <4> HIDE DEF y
        <4>3. w[r] = [version |-> 1, task |-> s]
          BY <4>1, <4>2, <3>3 DEF Two
        <4> QED BY <2>5, <4>3
      <3> QED BY <3>1, <3>2, <3>3 DEF RunWritten
    <2>6. CASE StartsTask(x, t)
      <3> DEFINE r == Run(t, 1)
      <3>1. ~Exists(t) /\ ~Exists(r) /\ TaskWritten(x, t)
        BY <2>6 DEF StartsTask, TaskWritten
      <3>2. /\ t \in DOMAIN w /\ w[t].runCount = 1
        BY <1>1, <2>6, <3>1, TaskWrites
      <3>3. r \in DOMAIN w /\ r[1] = "run" /\ w[r].task = t
        <4>1. w = Two(t, [version |-> 1, status |-> "running",
                          runCount |-> 1, run |-> Run(t, 1),
                          output |-> None, review |-> None,
                          publication |-> None, eventCount |-> 1],
                      r, [version |-> 1, task |-> t])
          BY <2>6 DEF StartsTask
        <4>2. r # t /\ r[1] = "run"
          BY <2>6 DEF StartsTask, Run
        <4>3. w[r] = [version |-> 1, task |-> t] /\ r \in DOMAIN w
          BY <4>1, <4>2 DEF Two
        <4> QED BY <4>2, <4>3
      <3>4. r \in RunsOf(t)' /\ r \notin RunsOf(t)
        BY <1>2, <3>1, <3>3 DEF RunsOf, Exists
      <3>5. t \notin Tasks
        BY <3>1 DEF Tasks, Exists
      <3>6. RunsOf(t)' = RunsOf(t) \cup {r}
        BY <2>4, <2>5, <3>4, <3>5
      <3>7. Cardinality(RunsOf(t)') = Cardinality(RunsOf(t)) + 1
        BY <2>2, <3>4, <3>6, OneMore
      <3> QED BY <1>2, <2>1, <3>1, <3>2, <3>7 DEF Exists
    <2>7. CASE t \in Tasks /\ RerunsTask(x, t)
      <3> DEFINE n == document[t].runCount + 1
                 r == Run(t, n)
      <3>1. Exists(t) /\ ~Exists(r) /\ TaskWritten(x, t)
        BY <2>7 DEF RerunsTask, TaskWritten, Tasks, Exists
      <3>2. t \in DOMAIN w /\ w[t].runCount = n
        BY <1>1, <2>7, <3>1, TaskWrites
      <3>3. r \in DOMAIN w /\ r[1] = "run" /\ w[r].task = t
        <4> DEFINE y == Advanced([document[t] EXCEPT
                                    !.status = "running", !.runCount = n,
                                    !.run = Run(t, n)])
        <4>1. w = Two(t, y, r, [version |-> 1, task |-> t])
          BY <2>7 DEF RerunsTask
        <4>2. r # t /\ r[1] = "run"
          BY <1>11 DEF Run
        <4> HIDE DEF y
        <4>3. w[r] = [version |-> 1, task |-> t] /\ r \in DOMAIN w
          BY <4>1, <4>2 DEF Two
        <4> QED BY <4>2, <4>3
      <3>4. r \in RunsOf(t)' /\ r \notin RunsOf(t)
        BY <1>2, <3>1, <3>3 DEF RunsOf, Exists
      <3>5. ~StartsTask(x, t)
        BY <3>1 DEF StartsTask
      <3>6. RunsOf(t)' = RunsOf(t) \cup {r}
        BY <2>4, <2>5, <3>4, <3>5
      <3>7. Cardinality(RunsOf(t)') = Cardinality(RunsOf(t)) + 1
        BY <2>2, <3>4, <3>6, OneMore
      <3>8. document'[t].runCount = n /\ Exists(t)'
        BY <1>2, <3>2 DEF Exists
      <3> QED BY <2>1, <3>1, <3>7, <3>8
    <2>8. CASE ~StartsTask(x, t) /\ ~(t \in Tasks /\ RerunsTask(x, t))
      <3>1. RunsOf(t)' = RunsOf(t)
        BY <2>4, <2>5, <2>8
      <3>2. CASE t \notin DOMAIN w
        <4>1. (Exists(t)' <=> Exists(t))
              /\ (Exists(t) => document'[t] = document[t])
          BY <1>2, <3>2 DEF Same, Exists
        <4> QED BY <2>1, <3>1, <4>1
      <3>3. CASE t \in DOMAIN w
        <4>1. TaskWritten(x, t)
          BY <1>2, <1>11, <3>3, KindsWritten
        <4>2. t \in Tasks /\ document'[t].runCount = document[t].runCount
          BY <1>1, <1>2, <2>8, <4>1, <3>3, TaskWrites DEF TaskWritten
        <4>3. Exists(t) /\ Exists(t)'
          BY <1>2, <4>2, <3>3 DEF Exists, Tasks
        <4> QED BY <2>1, <3>1, <4>2, <4>3
      <3> QED BY <3>2, <3>3
    <2> QED BY <2>6, <2>7, <2>8
  <1> QED BY <1>9, <1>10, <1>11 DEF Ledger

-----------------------------------------------------------------------------
(* The gates of a service request.                                         *)

Gate(q) ==
    LET y == document[Request(q)] IN
    /\ y.status \notin AGENT_PRE_ASSIGNMENT_STATUSES \cup {"cancelled"} =>
         /\ AssignmentsOf(q) = {y.assignment}
         /\ document[y.assignment].billed =>
              document[Engagement(q)].budgeted
    /\ y.status \in AGENT_PRE_ASSIGNMENT_STATUSES => AssignmentsOf(q) = {}
    /\ y.status = "ready_for_assignment" => Exists(Engagement(q))
    /\ Exists(Engagement(q)) =>
         y.status \notin ENGAGEMENT_SOURCE_STATUSES \cup {"requested"}

\* Nothing is engaged or assigned for a request that does not exist, and what
\* is assigned and billed was engaged.
Gated ==
    /\ \A q \in ServiceRequests : Exists(Request(q)) => Gate(q)
    /\ \A q \in ServiceRequests :
         AssignmentsOf(q) # {} => Exists(Request(q)) /\ Exists(Engagement(q))
    /\ \A q \in ServiceRequests :
         Exists(Engagement(q)) => Exists(Request(q))

LEMMA GatesOfGated == Gated => ServiceGates
  BY DEF Gated, Gate, ServiceGates

LEMMA GatesKept ==
  ASSUME StoreStands, Gated, NEW c \in Calls, Commits(c)
  PROVE  Gated'
  <1> DEFINE x == call[c]
             w == call[c].writes
  <1>1. StoreInv /\ DocumentsStand /\ OutputsStand /\ Versioned
    BY DEF StoreStands, StoreInv
  <1>2. /\ Ordered(x) /\ Preparable(x)
        /\ DOMAIN document' = DOMAIN document \cup DOMAIN w
        /\ \A d \in DOMAIN w : document'[d] = w[d]
        /\ \A d : d \notin DOMAIN w => Same(d)
        /\ \A d : d[1] \in WrittenOnce /\ Exists(d) => Same(d)
        /\ \A d : Exists(d) => Exists(d)'
    BY <1>1, CommitEffect
  <1> SUFFICES ASSUME NEW q \in ServiceRequests
               PROVE  /\ Exists(Request(q))' => Gate(q)'
                      /\ AssignmentsOf(q)' # {} =>
                           Exists(Request(q))' /\ Exists(Engagement(q))'
                      /\ Exists(Engagement(q))' => Exists(Request(q))'
    BY DEF Gated, Exists, AssignmentsOf, Request, Engagement
  <1> DEFINE d == Request(q)
             g == Engagement(q)
             v == document[d]
             y == document'[d]
  <1>3. /\ Exists(d) => Gate(q)
        /\ AssignmentsOf(q) # {} => Exists(d) /\ Exists(g)
        /\ Exists(g) => Exists(d)
    BY DEF Gated
  <1>4. /\ d[1] = "request" /\ g[1] = "engagement" /\ g[1] \in WrittenOnce
        /\ \A p : (Request(p) = d => p = q) /\ (Engagement(p) = g => p = q)
        /\ \A n : /\ Assignment(q, n)[1] = "assignment"
                  /\ Assignment(q, n)[1] \in WrittenOnce
                  /\ Assignment(q, n)[2] = q
    BY DEF Request, Engagement, Assignment, WrittenOnce
  <1>5. \A a \in AssignmentsOf(q) : Same(a)
    BY <1>2 DEF AssignmentsOf, Exists, WrittenOnce
  <1>6. Exists(g) => Same(g)
    BY <1>2, <1>4
  \* A command for another request changes nothing here.
  <1>7. ASSUME ~RequestWritten(x, d)
        PROVE  /\ Same(d) /\ Same(g)
               /\ AssignmentsOf(q)' = AssignmentsOf(q)
    <2>1. d \notin DOMAIN w
      BY <1>2, <1>4, <1>7, KindsWritten
    <2>2. g \notin DOMAIN w
      <3> SUFFICES ASSUME g \in DOMAIN w PROVE FALSE
        OBVIOUS
      <3>1. EngagementWritten(x, g)
        BY <1>2, <1>4, KindsWritten
      <3>2. PICK b \in BOOLEAN : Engages(x, q, b)
        BY <1>4, <3>1 DEF EngagementWritten
      <3> QED BY <1>7, <3>2 DEF RequestWritten
    <2>3. ASSUME NEW a \in DOMAIN w, a[1] = "assignment", a[2] = q
          PROVE  FALSE
      <3>1. AssignmentWritten(x, a)
        BY <1>2, <2>3, KindsWritten
      <3>2. PICK n \in {1, 2}, b \in BOOLEAN : Assigns(x, q, n, b)
        BY <2>3, <3>1 DEF AssignmentWritten, Assignment
      <3> QED BY <1>7, <3>2 DEF RequestWritten
    <2>4. AssignmentsOf(q)' = AssignmentsOf(q)
      BY <1>2, <2>3 DEF AssignmentsOf
    <2> QED BY <1>2, <2>1, <2>2, <2>4
  <1>8. ASSUME Same(d), Same(g), AssignmentsOf(q)' = AssignmentsOf(q)
        PROVE  /\ Exists(d)' => Gate(q)'
               /\ AssignmentsOf(q)' # {} => Exists(d)' /\ Exists(g)'
               /\ Exists(g)' => Exists(d)'
    <2>1. (Exists(d)' <=> Exists(d)) /\ (Exists(g)' <=> Exists(g))
      BY <1>8 DEF Same, Exists
    <2>2. Exists(d) => y = v
      BY <1>8 DEF Same, Exists
    <2>3. Exists(g) => document'[g] = document[g]
      BY <1>8 DEF Same, Exists
    <2>4. ASSUME Exists(d)
          PROVE  Gate(q)'
      <3>1. Gate(q) /\ y = v
        BY <1>3, <2>2, <2>4
      <3>2. ASSUME v.status \notin AGENT_PRE_ASSIGNMENT_STATUSES
                                     \cup {"cancelled"}
            PROVE  /\ AssignmentsOf(q)' = {v.assignment}
                   /\ document'[v.assignment].billed =>
                        document'[g].budgeted
        <4>1. AssignmentsOf(q) = {v.assignment}
          BY <3>1, <3>2 DEF Gate
        <4>2. document'[v.assignment] = document[v.assignment]
          BY <4>1, <1>5 DEF Same, AssignmentsOf
        <4> QED BY <1>3, <1>8, <2>3, <3>1, <3>2, <4>1, <4>2 DEF Gate
      <3> QED BY <1>8, <2>1, <3>1, <3>2 DEF Gate
    <2> QED BY <1>3, <1>8, <2>1, <2>4
  <1>9. CASE ~RequestWritten(x, d)
    BY <1>7, <1>8, <1>9
  <1>10. CASE CreatesRequest(x, q)
    <2>1. /\ ~Exists(d) /\ ~Exists(g) /\ AssignmentsOf(q) = {}
      BY <1>3, <1>10 DEF CreatesRequest
    <2>2. /\ DOMAIN w = {d}
          /\ y.status = "requested"
      BY <1>2, <1>10 DEF CreatesRequest, One
    <2>3. /\ ~Exists(g)' /\ AssignmentsOf(q)' = {} /\ Exists(d)'
      BY <1>2, <1>4, <2>1, <2>2 DEF AssignmentsOf, Exists
    <2> QED
      BY <2>2, <2>3
      DEF Gate, AGENT_PRE_ASSIGNMENT_STATUSES
  <1>11. ASSUME NEW next \in SERVICE_REQUEST_STATUSES, MovesRequest(x, q, next)
         PROVE  /\ Exists(d)' => Gate(q)'
                /\ AssignmentsOf(q)' # {} => Exists(d)' /\ Exists(g)'
                /\ Exists(g)' => Exists(d)'
    <2>1. /\ Exists(d) /\ next \in SERVICE_REQUEST_TRANSITIONS[v.status]
          /\ next \notin {"ready_for_assignment", "assigned"}
          /\ w = One(d, Advanced([v EXCEPT !.status = next]))
      BY <1>11 DEF MovesRequest, Transitionable
    <2>2. RequestStands(v)
      BY <1>1, <1>4, <2>1 DEF DocumentsStand, Stands, Exists
    <2>3. DOMAIN w = {d} /\ y = Advanced([v EXCEPT !.status = next])
      BY <1>2, <2>1 DEF One
    <2>4. y.status = next /\ y.assignment = v.assignment
      BY <2>2, <2>3 DEF Advanced, RequestStands, RequestFields
    <2>5. AssignmentsOf(q)' = AssignmentsOf(q) /\ Same(g) /\ Exists(d)'
      BY <1>2, <1>4, <2>1, <2>3 DEF AssignmentsOf, Same, Exists
    <2>6. /\ v.status \notin AGENT_PRE_ASSIGNMENT_STATUSES
               => next \notin AGENT_PRE_ASSIGNMENT_STATUSES
          /\ v.status \in AGENT_PRE_ASSIGNMENT_STATUSES
               => next \in AGENT_PRE_ASSIGNMENT_STATUSES \cup {"cancelled"}
          /\ v.status = "ready_for_assignment" => next = "cancelled"
          /\ v.status # "cancelled" /\ next # "requested"
      BY <2>1, <2>2, RequestTable DEF RequestStands
    <2>7. Gate(q)
      BY <1>3, <2>1
    <2>8. ASSUME next \notin AGENT_PRE_ASSIGNMENT_STATUSES \cup {"cancelled"}
          PROVE  /\ AssignmentsOf(q)' = {v.assignment}
                 /\ document'[v.assignment].billed =>
                      document'[g].budgeted
      <3>1. /\ AssignmentsOf(q) = {v.assignment}
            /\ document[v.assignment].billed => document[g].budgeted
        BY <2>6, <2>7, <2>8 DEF Gate
      <3>2. document'[v.assignment] = document[v.assignment]
        BY <3>1, <1>5 DEF Same, AssignmentsOf
      <3>3. document'[g] = document[g]
        BY <1>3, <2>5, <3>1 DEF Same, Exists
      <3> QED BY <2>5, <3>1, <3>2, <3>3
    <2>9. next \in AGENT_PRE_ASSIGNMENT_STATUSES => AssignmentsOf(q)' = {}
      BY <2>5, <2>6, <2>7 DEF Gate
    <2>10. ASSUME Exists(g)'
           PROVE  next \notin ENGAGEMENT_SOURCE_STATUSES \cup {"requested"}
      <3>1. /\ Exists(g)
            /\ v.status \notin ENGAGEMENT_SOURCE_STATUSES \cup {"requested"}
        BY <2>5, <2>7, <2>10 DEF Gate, Same, Exists
      <3>2. ENGAGEMENT_SOURCE_STATUSES \subseteq AGENT_PRE_ASSIGNMENT_STATUSES
        BY DEF ENGAGEMENT_SOURCE_STATUSES, AGENT_PRE_ASSIGNMENT_STATUSES
      <3>3. v.status \in AGENT_PRE_ASSIGNMENT_STATUSES =>
              v.status = "ready_for_assignment"
        BY <3>1 DEF ENGAGEMENT_SOURCE_STATUSES, AGENT_PRE_ASSIGNMENT_STATUSES
      <3>4. "cancelled" \notin AGENT_PRE_ASSIGNMENT_STATUSES
        BY DEF AGENT_PRE_ASSIGNMENT_STATUSES
      <3> QED BY <2>6, <3>2, <3>3, <3>4
    <2>11. Gate(q)'
      BY <2>1, <2>4, <2>8, <2>9, <2>10 DEF Gate
    <2> QED BY <1>3, <2>5, <2>11 DEF Same, Exists
  <1>12. ASSUME NEW b \in BOOLEAN, Engages(x, q, b)
         PROVE  /\ Exists(d)' => Gate(q)'
                /\ AssignmentsOf(q)' # {} => Exists(d)' /\ Exists(g)'
                /\ Exists(g)' => Exists(d)'
    <2>1. /\ Exists(d) /\ v.status \in ENGAGEMENT_SOURCE_STATUSES
          /\ w = Two(d, Advanced([v EXCEPT
                                    !.status = "ready_for_assignment"]),
                     g, [version |-> 1, budgeted |-> b])
      BY <1>12 DEF Engages
    <2>2. RequestStands(v)
      BY <1>1, <1>4, <2>1 DEF DocumentsStand, Stands, Exists
    <2>3. /\ DOMAIN w = {d, g}
          /\ y = Advanced([v EXCEPT !.status = "ready_for_assignment"])
      BY <1>2, <2>1 DEF Two
    <2>4. y.status = "ready_for_assignment"
      BY <2>2, <2>3 DEF Advanced, RequestStands, RequestFields
    <2>5. AssignmentsOf(q) = {}
      BY <1>3, <2>1
      DEF Gate, ENGAGEMENT_SOURCE_STATUSES, AGENT_PRE_ASSIGNMENT_STATUSES
    <2>6. AssignmentsOf(q)' = {} /\ Exists(d)' /\ Exists(g)'
      BY <1>2, <1>4, <2>3, <2>5 DEF AssignmentsOf, Same, Exists
    <2> QED
      BY <2>4, <2>6
      DEF Gate, AGENT_PRE_ASSIGNMENT_STATUSES, ENGAGEMENT_SOURCE_STATUSES
  <1>13. ASSUME NEW n \in {1, 2}, NEW b \in BOOLEAN, Assigns(x, q, n, b)
         PROVE  /\ Exists(d)' => Gate(q)'
                /\ AssignmentsOf(q)' # {} => Exists(d)' /\ Exists(g)'
                /\ Exists(g)' => Exists(d)'
    <2> DEFINE a == Assignment(q, n)
    <2>1. /\ Exists(d) /\ Exists(g) /\ v.status = "ready_for_assignment"
          /\ b => document[g].budgeted
          /\ w = Two(d, Advanced([v EXCEPT !.status = "assigned",
                                           !.assignment = a]),
                     a, [version |-> 1, billed |-> b])
      BY <1>13 DEF Assigns
    <2>2. RequestStands(v)
      BY <1>1, <1>4, <2>1 DEF DocumentsStand, Stands, Exists
    <2>3. a # d
      BY <1>4
    <2>4. /\ DOMAIN w = {d, a}
          /\ y = Advanced([v EXCEPT !.status = "assigned", !.assignment = a])
          /\ document'[a] = [version |-> 1, billed |-> b]
      BY <1>2, <2>1, <2>3, SMTT(30) DEF Two
    <2>5. y.status = "assigned" /\ y.assignment = a
      <3> HIDE DEF a
      <3> QED BY <2>2, <2>4 DEF Advanced, RequestStands, RequestFields
    <2>6. AssignmentsOf(q) = {}
      BY <1>3, <2>1 DEF Gate, AGENT_PRE_ASSIGNMENT_STATUSES
    <2>7. AssignmentsOf(q)' = {a} /\ Exists(d)' /\ Exists(g)'
      <3>1. Exists(d)' /\ Exists(g)' /\ Exists(a)'
        BY <1>2, <2>1, <2>4 DEF Exists
      <3>2. \A e \in AssignmentsOf(q)' : e = a
        BY <1>2, <1>4, <2>4, <2>6 DEF AssignmentsOf
      <3> QED BY <1>4, <3>1, <3>2 DEF AssignmentsOf, Exists
    <2>8. document'[g] = document[g]
      BY <1>6, <2>1 DEF Same, Exists
    <2>9. document'[a].billed => document'[g].budgeted
      BY <2>1, <2>4, <2>8
    <2> HIDE DEF a
    <2>10. Gate(q)'
      BY <2>5, <2>7, <2>9
      DEF Gate, AGENT_PRE_ASSIGNMENT_STATUSES, ENGAGEMENT_SOURCE_STATUSES
    <2> QED BY <2>7, <2>10
  <1>14. ASSUME RequestWritten(x, d)
         PROVE  \/ CreatesRequest(x, q)
                \/ \E next \in SERVICE_REQUEST_STATUSES :
                     MovesRequest(x, q, next)
                \/ \E b \in BOOLEAN : Engages(x, q, b)
                \/ \E n \in {1, 2}, b \in BOOLEAN : Assigns(x, q, n, b)
    BY <1>4, <1>14 DEF RequestWritten
  <1> QED BY <1>9, <1>10, <1>11, <1>12, <1>13, <1>14

-----------------------------------------------------------------------------
(* Reviews and publications.                                               *)

Reviewed(t) ==
    LET y == document[t] IN
    /\ y.status \in {"waiting_human_review", "approved", "published"} =>
         y.output[2] = y.run
    /\ y.status \in {"approved", "published"} =>
         \E u \in Users :
           /\ y.review = Review(y.output, u, "approved")
           /\ document[y.output].legal => u \in LegalUsers
    /\ y.status = "published" =>
         /\ y.publication = Publication(y.output, y.review)
         /\ PublicationsOf(t) = {y.publication}
         /\ document[y.output].legal =>
              document[y.publication].by \in LegalUsers
    /\ y.status # "published" => PublicationsOf(t) = {}

ReviewsStand ==
    /\ \A t \in Tasks : Reviewed(t)
    /\ \A t : PublicationsOf(t) # {} => t \in Tasks

LEMMA ReviewedPublications == ReviewsStand => PublicationReviewed
  <1> SUFFICES ASSUME \A t \in Tasks : Reviewed(t)
               PROVE  PublicationReviewed
    BY DEF ReviewsStand
  <1> SUFFICES ASSUME NEW t \in Tasks
               PROVE  LET x == document[t] IN
        /\ x.status \in {"approved", "published"} =>
             /\ x.output[2] = x.run
             /\ \E u \in Users : x.review = Review(x.output, u, "approved")
             /\ document[x.output].legal => x.review[3] \in LegalUsers
        /\ IF x.status = "published"
           THEN /\ PublicationsOf(t) = {Publication(x.output, x.review)}
                /\ document[x.output].legal =>
                     document[x.publication].by \in LegalUsers
           ELSE PublicationsOf(t) = {}
    BY DEF PublicationReviewed
  <1>1. Reviewed(t)
    OBVIOUS
  <1>2. \A d, u : Review(d, u, "approved")[3] = u
    BY DEF Review
  <1> QED BY <1>1, <1>2 DEF Reviewed

LEMMA ReviewsKept ==
  ASSUME StoreStands, ReviewsStand, NEW c \in Calls, Commits(c)
  PROVE  ReviewsStand'
  <1> DEFINE x == call[c]
             w == call[c].writes
  <1>1. StoreInv /\ DocumentsStand /\ OutputsStand /\ Versioned
    BY DEF StoreStands, StoreInv
  <1>2. /\ Ordered(x) /\ Preparable(x)
        /\ DOMAIN document' = DOMAIN document \cup DOMAIN w
        /\ \A d \in DOMAIN w : document'[d] = w[d]
        /\ \A d : d \notin DOMAIN w => Same(d)
        /\ \A d : d[1] \in WrittenOnce /\ Exists(d) => Same(d)
        /\ \A d : Exists(d) => Exists(d)'
    BY <1>1, CommitEffect
  <1> SUFFICES ASSUME NEW t
               PROVE  /\ t \in Tasks' => Reviewed(t)'
                      /\ PublicationsOf(t)' # {} => t \in Tasks'
    BY DEF ReviewsStand, Tasks, PublicationsOf
  <1> DEFINE v == document[t]
             y == document'[t]
             P == PublicationsOf(t)
  <1>3. /\ t \in Tasks => Reviewed(t)
        /\ P # {} => t \in Tasks
    BY DEF ReviewsStand
  <1>4. \A p \in P : Same(p)
    BY <1>2 DEF PublicationsOf, Exists, WrittenOnce
  <1>5. t \in Tasks /\ v.status \in {"waiting_human_review", "approved",
                                     "published"} =>
          Exists(v.output) /\ document'[v.output] = document[v.output]
    BY <1>1, <1>2 DEF OutputsStand, WrittenOnce, Same, Exists
  <1>6. ASSUME NEW p \in P', p \notin P
        PROVE  \E u \in Users :
                 /\ t \in Tasks /\ Publishes(x, t, u)
                 /\ p = Publication(v.output, v.review)
                 /\ document'[p].by = u
    <2>1. p[1] = "publication" /\ p \in DOMAIN document'
          /\ document'[p].task = t
      BY <1>6 DEF PublicationsOf
    <2>2. ~Exists(p)
      BY <1>2, <1>6, <2>1 DEF PublicationsOf, WrittenOnce, Same, Exists
    <2>3. p \in DOMAIN w
      BY <1>2, <2>1, <2>2 DEF Exists
    <2>4. PublicationWritten(x, p)
      BY <1>2, <2>1, <2>3, KindsWritten
    <2>5. PICK s \in Tasks, u \in Users :
            /\ p = Publication(document[s].output, document[s].review)
            /\ Publishes(x, s, u)
      BY <2>4 DEF PublicationWritten
    <2> DEFINE z == Advanced([document[s] EXCEPT
                                !.status = "published", !.publication = p])
    <2>6. w = Two(s, z, p, [version |-> 1, task |-> s, by |-> u])
      BY <2>5 DEF Publishes
    <2>7. s # p
      BY <2>1 DEF Tasks
    <2> HIDE DEF z
    <2>8. w[p] = [version |-> 1, task |-> s, by |-> u]
      BY <2>6, <2>7 DEF Two
    <2>9. document'[p] = [version |-> 1, task |-> s, by |-> u]
      BY <1>2, <2>3, <2>8
    <2>10. s = t /\ document'[p].by = u
      BY <2>1, <2>9
    <2> QED BY <2>5, <2>10
  <1>7. P \subseteq P'
    BY <1>2, <1>4 DEF PublicationsOf, Same, Exists
  <1>8. t \in Tasks => t \in Tasks'
    BY <1>2 DEF Tasks
  <1>9. P' # {} => t \in Tasks'
    <2>1. CASE P' = P
      BY <1>3, <1>8, <2>1
    <2>2. CASE P' # P
      <3>1. PICK p \in P' : p \notin P
        BY <1>7, <2>2
      <3> QED BY <1>6, <1>8, <3>1
    <2> QED BY <2>1, <2>2
  <1>10. (\A u \in Users : ~(t \in Tasks /\ Publishes(x, t, u))) => P' = P
    BY <1>6, <1>7
  <1>11. ASSUME t \in Tasks', ~TaskWritten(x, t)
         PROVE  Reviewed(t)'
    <2>1. t \notin DOMAIN w
      BY <1>2, <1>11, KindsWritten DEF Tasks
    <2>2. t \in Tasks /\ y = v /\ P' = P
      BY <1>2, <1>10, <1>11, <2>1 DEF TaskWritten, Tasks, Same
    <2>3. v.status = "published" =>
            /\ P = {v.publication}
            /\ document'[v.publication] = document[v.publication]
      BY <1>3, <1>4, <2>2 DEF Reviewed, Same, PublicationsOf
    <2> QED BY <1>3, <1>5, <2>2, <2>3 DEF Reviewed
  <1>12. ASSUME t \in Tasks', TaskWritten(x, t)
         PROVE  Reviewed(t)'
    <2>1. y = w[t]
      BY <1>1, <1>2, <1>12, TaskWrites
    <2>2. CASE StartsTask(x, t)
      <3>1. y.status = "running" /\ t \notin Tasks
        BY <1>1, <1>12, <2>1, <2>2, TaskWrites DEF StartsTask, Tasks, Exists
      <3>2. P' = {}
        BY <1>3, <1>10, <3>1
      <3> QED BY <3>1, <3>2 DEF Reviewed
    <2>3. CASE t \in Tasks /\ RerunsTask(x, t)
      <3>1. y.status = "running"
        BY <1>1, <1>12, <2>1, <2>3, TaskWrites
      <3>2. v.status \in {"revision_requested", "failed"}
        BY <2>3 DEF RerunsTask
      <3>3. P' = {}
        BY <1>3, <1>10, <2>3, <3>2 DEF Reviewed, Publishes
      <3> QED BY <3>1, <3>3 DEF Reviewed
    <2>4. ASSUME t \in Tasks, NEW o \in Outputs, Drafts(x, t, o)
          PROVE  Reviewed(t)'
      <3>1. /\ y.status = "waiting_human_review" /\ y.run = v.run
            /\ y.output = Draft(v.run, o)
        BY <1>1, <1>12, <2>1, <2>4, TaskWrites
      <3>2. v.status = "running"
        BY <2>4 DEF Drafts
      <3>3. P' = {}
        BY <1>3, <1>10, <2>4, <3>2 DEF Reviewed, Publishes
      <3>4. y.output[2] = y.run
        BY <3>1 DEF Draft
      <3> QED BY <3>1, <3>3, <3>4 DEF Reviewed
    <2>5. ASSUME t \in Tasks, NEW u \in Users, NEW decision \in Decisions,
                 Reviews(x, t, u, decision)
          PROVE  Reviewed(t)'
      <3>1. /\ y.status = decision /\ y.run = v.run
            /\ y.output = v.output
            /\ y.review = Review(v.output, u, decision)
        BY <1>1, <1>12, <2>1, <2>5, TaskWrites
      <3>2. /\ v.status = "waiting_human_review"
            /\ document[v.output].legal => u \in LegalUsers
        BY <2>5 DEF Reviews, ReviewerSuffices
      <3>3. P' = {}
        BY <1>3, <1>10, <2>5, <3>2 DEF Reviewed, Publishes
      <3>4. v.output[2] = v.run
        BY <1>3, <2>5, <3>2 DEF Reviewed
      <3>5. document'[v.output] = document[v.output]
        BY <1>5, <2>5, <3>2
      <3>6. y.status # "published"
        BY <3>1 DEF Decisions
      <3>7. document'[y.output].legal => u \in LegalUsers
        BY <3>1, <3>2, <3>5
      <3> QED BY <3>1, <3>3, <3>4, <3>6, <3>7 DEF Reviewed
    <2>6. ASSUME t \in Tasks, NEW u \in Users, Publishes(x, t, u)
          PROVE  Reviewed(t)'
      <3> DEFINE p == Publication(v.output, v.review)
      <3>1. /\ y.status = "published" /\ y.run = v.run
            /\ y.output = v.output /\ y.review = v.review
            /\ y.publication = p
        BY <1>1, <1>12, <2>1, <2>6, TaskWrites
      <3>2. /\ v.status = "approved"
            /\ document[v.output].legal => u \in LegalUsers
        BY <2>6 DEF Publishes, ReviewerSuffices
      <3>3. P = {} /\ Reviewed(t)
        BY <1>3, <2>6, <3>2 DEF Reviewed
      <3>4. document'[v.output] = document[v.output]
        BY <1>5, <2>6, <3>2
      <3>5. p \in DOMAIN w /\ w[p] = [version |-> 1, task |-> t, by |-> u]
        <4> DEFINE z == Advanced([v EXCEPT !.status = "published",
                                           !.publication = p])
        <4>1. w = Two(t, z, p, [version |-> 1, task |-> t, by |-> u])
          BY <2>6 DEF Publishes
        <4>2. t # p
          BY <2>6 DEF Tasks, Publication
        <4> HIDE DEF z, p
        <4> QED BY <4>1, <4>2 DEF Two
      <3>6. p[1] = "publication"
        BY DEF Publication
      <3>7. document'[p] = [version |-> 1, task |-> t, by |-> u]
        BY <1>2, <3>5
      <3>8. p \in P'
        BY <1>2, <3>5, <3>6, <3>7 DEF PublicationsOf
      <3>9. P' = {p}
        <4>1. \A r \in P' : r = p
          BY <1>6, <3>3
        <4> QED BY <3>8, <4>1
      <3>10. document'[p].by = u
        BY <3>7
      <3> HIDE DEF p
      <3>11. v.output[2] = v.run
        BY <3>2, <3>3 DEF Reviewed
      <3>12. \E r \in Users :
               /\ y.review = Review(y.output, r, "approved")
               /\ document'[y.output].legal => r \in LegalUsers
        BY <3>1, <3>2, <3>3, <3>4 DEF Reviewed
      <3>13. y.publication = Publication(y.output, y.review)
        BY <3>1 DEF p
      <3>14. document'[y.output].legal =>
               document'[y.publication].by \in LegalUsers
        BY <3>1, <3>2, <3>4, <3>10
      <3> QED BY <3>1, <3>9, <3>11, <3>12, <3>13, <3>14 DEF Reviewed
    <2> QED BY <1>12, <2>2, <2>3, <2>4, <2>5, <2>6 DEF TaskWritten
  <1> QED BY <1>9, <1>11, <1>12

-----------------------------------------------------------------------------
(* Approvals.                                                              *)

Decided(a) ==
    LET y == document[a] IN
    IF y.status = "pending" THEN DecisionsOn(a) = {}
    ELSE \E u \in Officers :
           /\ DecisionsOn(a) = {Decision(a, u, y.status)}
           /\ a[3] \in LAWYER_APPROVAL_TYPES => u \in Lawyers \ {y.preparedBy}

ApprovalsStand ==
    /\ \A a \in Approvals : Decided(a)
    /\ \A a : DecisionsOn(a) # {} => a \in Approvals

LEMMA DecidedApprovals == ApprovalsStand => ApprovalDecidedOnce
  BY DEF ApprovalsStand, Decided, ApprovalDecidedOnce

\* What a commit makes of an approval.
LEMMA ApprovalMoves ==
  ASSUME StoreStands, NEW c \in Calls, Commits(c), NEW a, a \in Approvals'
  PROVE  LET x == call[c] IN
         \/ a \in Approvals /\ document'[a] = document[a]
         \/ /\ a \notin Approvals /\ document'[a].status = "pending"
            /\ \E m \in Matters, type \in APPROVAL_TYPES, u \in Officers :
                 /\ a = Approval(m, type, Version(Matter(m)))
                 /\ AsksApproval(x, m, type, u)
         \/ /\ a \in Approvals /\ document[a].status = "pending"
            /\ \E u \in Officers, decision \in ApprovalDecisions :
                 /\ Decides(x, a, u, decision)
                 /\ document'[a].status = decision
                 /\ document'[a].preparedBy = document[a].preparedBy
  <1> DEFINE x == call[c]
             w == call[c].writes
  <1>1. StoreInv /\ DocumentsStand /\ Versioned
    BY DEF StoreStands, StoreInv
  <1>2. /\ Preparable(x)
        /\ DOMAIN document' = DOMAIN document \cup DOMAIN w
        /\ \A d \in DOMAIN w : document'[d] = w[d]
        /\ \A d : d \notin DOMAIN w => Same(d)
    BY <1>1, CommitEffect
  <1>3. a[1] = "approval" /\ a \in DOMAIN document'
    BY DEF Approvals
  <1>4. CASE a \notin DOMAIN w
    BY <1>2, <1>3, <1>4 DEF Same, Approvals
  <1>5. CASE a \in DOMAIN w
    <2>1. ApprovalWritten(x, a)
      BY <1>2, <1>3, <1>5, KindsWritten
    <2>2. ASSUME NEW m \in Matters, NEW type \in APPROVAL_TYPES,
                 NEW u \in Officers, a = Approval(m, type, Version(Matter(m))),
                 AsksApproval(x, m, type, u)
          PROVE  a \notin Approvals /\ document'[a].status = "pending"
      <3>1. x.expects = Two(Matter(m), Version(Matter(m)), a, 0)
        BY <2>2 DEF AsksApproval
      <3>2. Matter(m) # a
        BY <1>3 DEF Matter
      <3>3. a \in DOMAIN x.expects /\ x.expects[a] = 0
        BY <3>1, <3>2 DEF Two
      <3>4. Version(a) = 0
        BY <3>3 DEF Commits, Commit, AsExpected
      <3>5. a \notin Approvals
        BY <1>1, <3>4, VersionFacts DEF Approvals, Exists
      <3>6. w[a].status = "pending"
        BY <1>1, <2>1, <2>2, ApprovalWrites
      <3> QED BY <1>2, <1>5, <3>5, <3>6
    <2>3. ASSUME NEW u \in Officers, NEW decision \in ApprovalDecisions,
                 a \in Approvals, Decides(x, a, u, decision)
          PROVE  /\ document[a].status = "pending"
                 /\ document'[a].status = decision
                 /\ document'[a].preparedBy = document[a].preparedBy
      <3>1. /\ w[a].status = decision
            /\ w[a].preparedBy = document[a].preparedBy
        BY <1>1, <2>1, <2>3, ApprovalWrites
      <3>2. document[a].status = "pending"
        BY <2>3 DEF Decides
      <3> QED BY <1>2, <1>5, <3>1, <3>2
    <2> QED BY <2>1, <2>2, <2>3 DEF ApprovalWritten
  <1> QED BY <1>4, <1>5

LEMMA ApprovalsKept ==
  ASSUME StoreStands, ApprovalsStand, NEW c \in Calls, Commits(c)
  PROVE  ApprovalsStand'
  <1> DEFINE x == call[c]
             w == call[c].writes
  <1>1. StoreInv /\ DocumentsStand /\ Versioned
    BY DEF StoreStands, StoreInv
  <1>2. /\ Preparable(x)
        /\ DOMAIN document' = DOMAIN document \cup DOMAIN w
        /\ \A d : d[1] \in WrittenOnce /\ Exists(d) => Same(d)
        /\ \A d : Exists(d) => Exists(d)'
    BY <1>1, CommitEffect
  <1> SUFFICES ASSUME NEW a
               PROVE  /\ a \in Approvals' => Decided(a)'
                      /\ DecisionsOn(a)' # {} => a \in Approvals'
    BY DEF ApprovalsStand, Approvals, DecisionsOn
  <1> DEFINE D == DecisionsOn(a)
  <1>3. /\ a \in Approvals => Decided(a)
        /\ D # {} => a \in Approvals
    BY DEF ApprovalsStand
  <1>4. a \in Approvals => a \in Approvals'
    BY <1>2 DEF Approvals
  <1>5. D \subseteq D'
    BY <1>2 DEF DecisionsOn
  <1>6. ASSUME NEW d \in D', d \notin D
        PROVE  \E u \in Officers, decision \in ApprovalDecisions :
                 /\ a \in Approvals /\ d = Decision(a, u, decision)
                 /\ Decides(x, a, u, decision)
    <2>1. d \in DOMAIN w /\ d[1] = "decision" /\ d[2] = a
      BY <1>2, <1>6 DEF DecisionsOn
    <2>2. DecisionWritten(x, d)
      BY <1>2, <2>1, KindsWritten
    <2>3. PICK b \in Approvals, u \in Officers, decision \in ApprovalDecisions :
            d = Decision(b, u, decision) /\ Decides(x, b, u, decision)
      BY <2>2 DEF DecisionWritten
    <2>4. b = a
      BY <2>1, <2>3 DEF Decision
    <2> QED BY <2>3, <2>4
  <1>7. D' # {} => a \in Approvals'
    BY <1>3, <1>4, <1>5, <1>6
  \* Two commands do not share a bundle.
  <1>8. ASSUME NEW u \in Officers, NEW decision \in ApprovalDecisions,
               Decides(x, a, u, decision), a \in Approvals
        PROVE  /\ Decision(a, u, decision) \in D'
               /\ \A d \in D' : d \in D \/ d = Decision(a, u, decision)
    <2> DEFINE z == [document[a] EXCEPT !.version = @ + 1, !.status = decision]
               d == Decision(a, u, decision)
    <2>1. w = Two(a, z, d, [version |-> 1])
      BY <1>8 DEF Decides
    <2>2. DOMAIN w = {a, d}
      <3> HIDE DEF z, d
      <3> QED BY <2>1 DEF Two
    <2>3. d[1] = "decision" /\ d[2] = a /\ a[1] = "approval"
      BY <1>8 DEF Decision, Approvals
    <2>4. d \in D'
      BY <1>2, <2>2, <2>3 DEF DecisionsOn
    <2>5. ASSUME NEW e \in D', e \notin D
          PROVE  e = d
      BY <1>2, <2>2, <2>3, <2>5 DEF DecisionsOn
    <2> QED BY <2>4, <2>5
  <1>9. ASSUME NEW m \in Matters, NEW type \in APPROVAL_TYPES,
               NEW u \in Officers, AsksApproval(x, m, type, u)
        PROVE  D' = D
    <2>1. DOMAIN w = {Approval(m, type, Version(Matter(m)))}
      BY <1>9 DEF AsksApproval, One
    <2> QED BY <1>2, <2>1 DEF DecisionsOn, Approval
  <1>10. ASSUME a \in Approvals'
         PROVE  Decided(a)'
    <2>1. CASE a \in Approvals /\ document'[a] = document[a]
      <3>1. (\E u \in Officers, decision \in ApprovalDecisions :
               Decides(x, a, u, decision)) => document[a].status # "pending"
        <4> SUFFICES ASSUME NEW u \in Officers,
                            NEW decision \in ApprovalDecisions,
                            Decides(x, a, u, decision)
                     PROVE  FALSE
          OBVIOUS
        <4>1. ApprovalWritten(x, a)
          BY <2>1 DEF ApprovalWritten
        <4>2. a \in DOMAIN w /\ w[a].status = decision
          BY <1>1, <4>1, ApprovalWrites
        <4>3. document'[a] = w[a]
          BY <1>1, <4>2, CommitEffect
        <4>4. document[a].status = "pending"
          BY DEF Decides
        <4> QED BY <2>1, <4>2, <4>3, <4>4 DEF ApprovalDecisions
      <3>2. D' = D
        BY <1>5, <1>6, <3>1 DEF Decides
      <3> QED BY <1>3, <2>1, <3>2 DEF Decided
    <2>2. ASSUME a \notin Approvals, document'[a].status = "pending",
                 NEW m \in Matters, NEW type \in APPROVAL_TYPES,
                 NEW u \in Officers, AsksApproval(x, m, type, u)
          PROVE  Decided(a)'
      BY <1>3, <1>9, <2>2 DEF Decided
    <2>3. ASSUME a \in Approvals, document[a].status = "pending",
                 NEW u \in Officers, NEW decision \in ApprovalDecisions,
                 Decides(x, a, u, decision), document'[a].status = decision,
                 document'[a].preparedBy = document[a].preparedBy
          PROVE  Decided(a)'
      <3>1. D = {}
        BY <1>3, <2>3 DEF Decided
      <3>2. D' = {Decision(a, u, document'[a].status)}
        BY <1>8, <2>3, <3>1
      <3>3. a[3] \in LAWYER_APPROVAL_TYPES =>
              u \in Lawyers \ {document'[a].preparedBy}
        BY <2>3 DEF Decides, MayDecide
      <3>4. document'[a].status # "pending"
        BY <2>3 DEF ApprovalDecisions
      <3> QED BY <3>2, <3>3, <3>4 DEF Decided
    <2> QED BY <1>10, <2>1, <2>2, <2>3, ApprovalMoves
  <1> QED BY <1>7, <1>10

\* What ApprovalsFitTheMatter says of a step.
ApprovalFits ==
    /\ \A a \in {d \in DOMAIN document' : d[1] = "approval"} \ Approvals :
         /\ document'[Matter(a[2])].version = a[4]
         /\ document'[Matter(a[2])].status
              \in APPROVAL_REQUEST_MATTER_STATUSES(a[3])
    /\ \A a \in Approvals :
         document[a].status # "pending" => document'[a] = document[a]

LEMMA CommittedApprovalFits ==
  ASSUME StoreStands, NEW c \in Calls, Commits(c)
  PROVE  ApprovalFits
  <1> DEFINE x == call[c]
             w == call[c].writes
  <1>1. StoreInv /\ DocumentsStand /\ Versioned
    BY DEF StoreStands, StoreInv
  <1>2. /\ DOMAIN document' = DOMAIN document \cup DOMAIN w
        /\ \A d : d \notin DOMAIN w => Same(d)
    BY <1>1, CommitEffect
  <1>3. ASSUME NEW a, a \in Approvals', a \notin Approvals
        PROVE  /\ document'[Matter(a[2])].version = a[4]
               /\ document'[Matter(a[2])].status
                    \in APPROVAL_REQUEST_MATTER_STATUSES(a[3])
    <2>1. PICK m \in Matters, type \in APPROVAL_TYPES, u \in Officers :
            /\ a = Approval(m, type, Version(Matter(m)))
            /\ AsksApproval(x, m, type, u)
      BY <1>3, ApprovalMoves
    <2>2. a[2] = m /\ a[3] = type /\ a[4] = Version(Matter(m))
      BY <2>1 DEF Approval
    <2>3. DOMAIN w = {a} /\ Matter(m) # a
      BY <2>1 DEF AsksApproval, One, Approval, Matter
    <2>4. /\ Exists(Matter(m))
          /\ document[Matter(m)].status
               \in APPROVAL_REQUEST_MATTER_STATUSES(type)
      BY <2>1 DEF AsksApproval
    <2>5. document'[Matter(m)] = document[Matter(m)]
      BY <1>2, <2>3, <2>4 DEF Same, Exists
    <2> QED BY <2>2, <2>4, <2>5 DEF Version, Exists
  <1>4. ASSUME NEW a \in Approvals, document[a].status # "pending"
        PROVE  document'[a] = document[a]
    <2>1. a \in Approvals'
      BY <1>2 DEF Approvals
    <2> QED BY <1>4, <2>1, ApprovalMoves
  <1> QED BY <1>3, <1>4 DEF ApprovalFits, Approvals

-----------------------------------------------------------------------------
(* The theorems.                                                           *)

CommandsInv ==
    /\ StoreStands
    /\ Ledger
    /\ Gated
    /\ ReviewsStand
    /\ ApprovalsStand

\* A step that writes nothing keeps what is said of documents and events.
LEMMA Unwritten ==
  ASSUME UNCHANGED <<document, event>>
  PROVE  /\ Ledger => Ledger'
         /\ Gated => Gated'
         /\ ReviewsStand => ReviewsStand'
         /\ ApprovalsStand => ApprovalsStand'
         /\ ApprovalFits
  <1>1. Ledger => Ledger'
    BY DEF Ledger, EventsOf, EventsOfType, RunsOf, Version, Exists
  <1>2. Gated => Gated'
    BY DEF Gated, Gate, AssignmentsOf, Exists
  <1>3. ReviewsStand => ReviewsStand'
    BY DEF ReviewsStand, Reviewed, PublicationsOf, Tasks
  <1>4. ApprovalsStand => ApprovalsStand'
    BY DEF ApprovalsStand, Decided, DecisionsOn, Approvals
  <1>5. ApprovalFits
    BY DEF ApprovalFits, Approvals
  <1> QED BY <1>1, <1>2, <1>3, <1>4, <1>5

LEMMA StoreQuiet ==
  ASSUME StoreStands, UNCHANGED <<document, event, receipt, call, budget>>
  PROVE  StoreStands'
  <1>1. StoreInv /\ DocumentsStand /\ OutputsStand
    BY DEF StoreStands
  <1>2. DocumentsStand' /\ OutputsStand'
    BY <1>1 DEF DocumentsStand, OutputsStand, Tasks, Exists
  <1>3. StoreTypeOK' /\ DOMAIN call' = Calls /\ Versioned'
    BY <1>1 DEF StoreInv, StoreTypeOK, Versioned
  <1>4. ASSUME NEW c \in Calls, NEW x, x = call'[c], x.pc = "prepared"
        PROVE  Fits(x)'
    <2>1. Fits(x)
      BY <1>1, <1>4 DEF StoreInv
    <2>2. \A d : Version(d)' = Version(d) /\ Same(d)
      BY DEF Version, Same, Exists
    <2>3. Ordered(x)'
      BY <2>1, <2>2 DEF Fits, Ordered
    <2>4. AllAsExpected(x)' => Preparable(x)'
      BY <1>1, <2>1, <2>2, StillPreparable DEF Fits, AllAsExpected
    <2> QED BY <2>3, <2>4 DEF Fits
  <1> QED BY <1>2, <1>3, <1>4 DEF StoreStands, StoreInv

LEMMA InitialStore == StoreInit => CommandsInv
  <1> SUFFICES ASSUME StoreInit
               PROVE  CommandsInv
    OBVIOUS
  <1>1. /\ DOMAIN document = {} /\ event = {} /\ receipt = {}
        /\ call = [c \in Calls |-> Idle] /\ budget \in Budgets
    BY DEF StoreInit
  <1>2. IsFiniteSet({}) /\ Cardinality({}) = 0
    BY FS_EmptySet
  <1>3. StoreStands
    BY <1>1, <1>2
    DEF StoreStands, StoreInv, StoreTypeOK, Versioned, DocumentsStand,
        OutputsStand, Tasks, Idle
  <1>4. Ledger
    BY <1>1, <1>2
    DEF Ledger, EventsOf, EventsOfType, RunsOf, Version, Exists
  <1>5. Gated
    BY <1>1 DEF Gated, AssignmentsOf, Exists
  <1>6. ReviewsStand
    BY <1>1 DEF ReviewsStand, PublicationsOf, Tasks
  <1>7. ApprovalsStand
    BY <1>1 DEF ApprovalsStand, DecisionsOn, Approvals
  <1> QED BY <1>3, <1>4, <1>5, <1>6, <1>7 DEF CommandsInv

LEMMA CommandsInductive ==
  ASSUME CommandsInv, [CommandsNext]_storeVars
  PROVE  CommandsInv' /\ ApprovalFits
  <1>1. /\ StoreStands /\ Ledger /\ Gated /\ ReviewsStand /\ ApprovalsStand
        /\ StoreInv
    BY DEF CommandsInv, StoreStands
  <1>2. CASE CommandsNext
    <2>1. StoreStands'
      BY <1>1, <1>2, StoreSteps
    <2>2. PICK c \in Calls : Commits(c) \/ Waits(c)
      BY <1>1, <1>2, Steps
    <2>3. CASE Commits(c)
      BY <1>1, <2>1, <2>3, LedgerKept, GatesKept, ReviewsKept, ApprovalsKept,
         CommittedApprovalFits
      DEF CommandsInv
    <2>4. CASE Waits(c)
      <3>1. UNCHANGED <<document, event>>
        BY <2>4 DEF Waits
      <3> QED BY <1>1, <2>1, <3>1, Unwritten DEF CommandsInv
    <2> QED BY <2>2, <2>3, <2>4
  <1>3. CASE UNCHANGED storeVars
    <2>1. UNCHANGED <<document, event, receipt, call, budget>>
      BY <1>3 DEF storeVars
    <2>2. StoreStands'
      BY <1>1, <2>1, StoreQuiet
    <2> QED BY <1>1, <2>1, <2>2, Unwritten DEF CommandsInv
  <1> QED BY <1>2, <1>3

\* The store is consistent, and every bundle on its way could have been
\* prepared at the moment it commits.
THEOREM CommandsInvariant == CommandsSpec => []CommandsInv
  <1>1. StoreInit => CommandsInv
    BY InitialStore
  <1>2. CommandsInv /\ [CommandsNext]_storeVars => CommandsInv'
    BY CommandsInductive
  <1> QED BY <1>1, <1>2, PTL DEF CommandsSpec

\* BundlesWhole: the versions of requests, tasks and matters count the events
\* that changed them, whatever the order in which the bundles commit.
THEOREM BundlesStayWhole == CommandsSpec => []BundlesWhole
  <1>1. CommandsInv => BundlesWhole
    <2> SUFFICES ASSUME CommandsInv
                 PROVE  BundlesWhole
      OBVIOUS
    <2>1. StoreInv /\ DocumentsStand /\ Versioned /\ Ledger
      BY DEF CommandsInv, StoreStands, StoreInv
    <2>2. CommandsTypeOK
      <3>1. StoreTypeOK
        BY <2>1 DEF StoreInv
      <3>2. ServicesTypeOK
        BY <2>1
        DEF ServicesTypeOK, DocumentsStand, Stands, Request, Exists, Tasks,
            RequestStands, TaskStands
      <3>3. MattersTypeOK
        BY <2>1
        DEF MattersTypeOK, DocumentsStand, Stands, Matter, Exists, Approvals,
            ApprovalStands
      <3> QED BY <3>1, <3>2, <3>3 DEF CommandsTypeOK
    <2>3. ASSUME NEW d \in DOMAIN document
          PROVE  /\ d[1] \in {"request", "task"} => VersionTellsEvents(d)
                 /\ d[1] = "task" =>
                      document[d].runCount = Cardinality(RunsOf(d))
                 /\ d[1] = "matter" =>
                      Version(d) = 1 + Cardinality(
                        EventsOfType(d, "legal_matter_status_changed"))
      <3>1. Exists(d) /\ Version(d) = document[d].version /\ Version(d) \in Nat
        BY <2>1, <2>3, VersionFacts DEF Exists
      <3>2. d[1] \in {"request", "task"} => document[d].eventCount = Version(d)
        BY <2>1, <3>1
        DEF DocumentsStand, Stands, RequestStands, TaskStands
      <3>3. d[1] \in {"request", "task"} => VersionTellsEvents(d)
        BY <2>1, <3>1, <3>2 DEF Ledger, VersionTellsEvents
      <3>4. d[1] = "matter" =>
              Cardinality(EventsOfType(d, "legal_matter_status_changed"))
                = Version(d) - 1
        BY <2>1, <3>1 DEF Ledger
      <3>5. d[1] = "task" => document[d].runCount = Cardinality(RunsOf(d))
        BY <2>1, <3>1 DEF Ledger
      <3> QED BY <3>1, <3>3, <3>4, <3>5
    <2> QED BY <2>1, <2>2, <2>3 DEF BundlesWhole, Versioned
  <1> QED BY <1>1, CommandsInvariant, PTL

\* ServiceGates: no command, however late its bundle commits, takes a service
\* request past its engagement or assignment.
THEOREM GatesAreKept == CommandsSpec => []ServiceGates
  <1>1. CommandsInv => ServiceGates
    BY GatesOfGated DEF CommandsInv
  <1> QED BY <1>1, CommandsInvariant, PTL

\* PublicationReviewed: what an agent drafts is published once, after a human
\* approved that draft.
THEOREM PublicationsAreReviewed == CommandsSpec => []PublicationReviewed
  <1>1. CommandsInv => PublicationReviewed
    BY ReviewedPublications DEF CommandsInv
  <1> QED BY <1>1, CommandsInvariant, PTL

\* ApprovalDecidedOnce: an approval has the one decision its status tells, by
\* an officer who may decide it.
THEOREM ApprovalsAreDecidedOnce == CommandsSpec => []ApprovalDecidedOnce
  <1>1. CommandsInv => ApprovalDecidedOnce
    BY DecidedApprovals DEF CommandsInv
  <1> QED BY <1>1, CommandsInvariant, PTL

\* ApprovalsFitTheMatter: an approval is requested for the matter as it is at
\* that step, and its outcome stands.
THEOREM ApprovalsAreTimely == CommandsSpec => ApprovalsFitTheMatter
  <1>1. CommandsInv /\ [CommandsNext]_storeVars =>
          [/\ \A a \in {d \in DOMAIN document' : d[1] = "approval"} \ Approvals :
                /\ document'[Matter(a[2])].version = a[4]
                /\ document'[Matter(a[2])].status
                     \in APPROVAL_REQUEST_MATTER_STATUSES(a[3])
           /\ \A a \in Approvals :
                document[a].status # "pending" => document'[a] = document[a]
          ]_storeVars
    BY CommandsInductive DEF ApprovalFits
  <1> QED
    BY <1>1, CommandsInvariant, PTL DEF CommandsSpec, ApprovalsFitTheMatter
=============================================================================
