------------------------------ MODULE CaseFiles ------------------------------
(***************************************************************************)
(* The case evidence centre: a case file opened for a source record, the   *)
(* custody chain of its evidence, its review tasks, parties and their      *)
(* relationships, legal holds, retention, and the packages exported of it. *)
(*                                                                         *)
(* Every operation is one transaction on the case and on a record of it,   *)
(* which counts its events and names the last one.  Requests bear an id:   *)
(* a known one is answered, and nothing is written.  The opening of a case *)
(* and its export act on what was read before.  Nothing in the functions   *)
(* closes a case: that is external.                                        *)
(***************************************************************************)
EXTENDS SharedRiskPersistence

\* A case has the identity of its source, one reference to it as evidence,
\* and at most one retention record.
CaseFile(s) == <<"caseFile", s>>
EvidenceRef(s) == <<"evidenceRef", s>>
RetentionRecord(s) == <<"retention", s>>
ReviewTask(s, i) == <<"reviewTask", s, i>>
Party(s, i) == <<"party", s, i>>
Relationship(s, i) == <<"relationship", s, i>>
LegalHold(s, i) == <<"hold", s, i>>
Package(s, i) == <<"package", s, i>>

\* An event of a record, and what the case's own events and audit tell of it.
RecordEvent(d, request) == <<"recordEvent", d, request>>
CaseEvent(s, d) == <<"caseEvent", s, d>>

SectionKinds == {"caseFile", "evidenceRef", "retention", "reviewTask",
                 "party", "relationship", "hold"}

Cases == {d[2] : d \in Kind("caseFile")}
RecordsOf(s, k) == {d \in Kind(k) : d[2] = s}
CaseOpen(s) == Exists(CaseFile(s)) /\ document[CaseFile(s)].status = "open"

-----------------------------------------------------------------------------
\* Opening a case.

Candidate(source) == source[1] = "riskSignal" \/ Promotable(source)

ReadCaseSource(c, source) ==
    /\ Candidate(source)
    /\ Read(c, [pc |-> "openCase", source |-> source,
                version |-> document[source].version])

CreateCase(c) ==
    LET s == call[c].source IN
    /\ call[c].pc = "openCase"
    /\ ~Exists(CaseFile(s))
    /\ document[s].version = call[c].version
    /\ Commit(c,
         CaseFile(s) :> [status |-> "open", activeHolds |-> 0,
                         held |-> FALSE, retention |-> <<>>]
         @@ EvidenceRef(s) :>
              [review |-> "awaiting_review", custody |-> "not_started",
               eventCount |-> 0, last |-> <<>>, lastType |-> "",
               version |-> call[c].version]
         @@ CaseEvent(s, CaseFile(s)) :> [type |-> "case_opened_from_risk"])

CloseCase(s) ==
    /\ CaseOpen(s)
    /\ Transact(CaseFile(s) :> [document[CaseFile(s)] EXCEPT
                                  !.status = "closed"])

-----------------------------------------------------------------------------
\* Records and their events.

\* The record with its first event.
Opened(d, type, x) ==
    d :> (x @@ [eventCount |-> 1, last |-> RecordEvent(d, 0)])
    @@ RecordEvent(d, 0) :> [sequence |-> 1, previous |-> <<>>, type |-> type]
    @@ CaseEvent(d[2], RecordEvent(d, 0)) :> [type |-> type]

\* The record, changed, with its next event.
Appended(d, request, type, x) ==
    LET e == RecordEvent(d, request) IN
    d :> [x EXCEPT !.eventCount = @ + 1, !.last = e]
    @@ e :> [sequence |-> document[d].eventCount + 1,
             previous |-> document[d].last, type |-> type]
    @@ CaseEvent(d[2], e) :> [type |-> type]

New(d, request) == ~Exists(RecordEvent(d, request))
Requested(d) == 1 .. document[d].eventCount + 1

\* Custody of the evidence.
chainActions(e) ==
    IF e.eventCount = 0 THEN {"chain_started"}
    ELSE ({"custody_received", "custody_transferred"}
          \cup (IF e.review = "awaiting_review" THEN {"review_started"} ELSE {})
          \cup (IF e.review = "under_review" THEN {"review_completed"} ELSE {})
          \cup (IF e.custody = "sealed" THEN {"unsealed"} ELSE {"sealed"}))
         \ {e.lastType}

chainTransition(e, type) ==
    [e EXCEPT !.lastType = type,
              !.review = CASE type = "chain_started" -> "awaiting_review"
                           [] type = "review_started" -> "under_review"
                           [] type = "review_completed" -> "verified"
                           [] OTHER -> @,
              !.custody = CASE type \in {"chain_started", "unsealed"}
                                 -> "registered"
                            [] type = "sealed" -> "sealed"
                            [] OTHER -> @]

AppendChainEvent(s, request) ==
    LET d == EvidenceRef(s) IN
    /\ CaseOpen(s) /\ New(d, request)
    /\ \E type \in chainActions(document[d]) :
         Transact(Appended(d, request, type,
                           chainTransition(document[d], type)))

\* Review tasks.
CreateReviewTask(s, i, assigned) ==
    /\ CaseOpen(s) /\ ~Exists(ReviewTask(s, i))
    /\ Transact(Opened(ReviewTask(s, i), "task_created",
         [status |-> IF assigned THEN "assigned" ELSE "open"]))

ReviewTaskExpected ==
    [assignment_set |-> {"open"}, assignment_changed |-> {"assigned"},
     review_started |-> {"assigned"}, note_added |-> {"assigned", "in_review"},
     due_date_changed |-> {"open", "assigned", "in_review"},
     review_completed |-> {"in_review"},
     task_cancelled |-> {"open", "assigned", "in_review"}]

ReviewTaskStatus(status, type) ==
    CASE type \in {"assignment_set", "assignment_changed"} -> "assigned"
      [] type = "review_started" -> "in_review"
      [] type = "review_completed" -> "completed"
      [] type = "task_cancelled" -> "cancelled"
      [] OTHER -> status

AppendReviewTaskEvent(d, request, type) ==
    /\ CaseOpen(d[2]) /\ New(d, request)
    /\ document[d].status \in ReviewTaskExpected[type]
    /\ Transact(Appended(d, request, type,
         [document[d] EXCEPT !.status = ReviewTaskStatus(@, type)]))

\* Parties and relationships.
CreateParty(s, i) ==
    /\ CaseOpen(s) /\ ~Exists(Party(s, i))
    /\ Transact(Opened(Party(s, i), "party_created",
                       [status |-> "observed"]))

CreateRelationship(s, i, source, target) ==
    /\ CaseOpen(s) /\ ~Exists(Relationship(s, i))
    /\ \A d \in {source, target} : Exists(d) /\ d[2] = s
    /\ Transact(Opened(Relationship(s, i), "relationship_created",
         [status |-> "observed", source |-> source, target |-> target]))

\* By status; what verifies a party confirms a relationship.
graphActions(status) ==
    CASE status = "observed" ->
           {"start_review", "verify", "dispute", "add_note", "deactivate"}
      [] status = "under_review" ->
           {"verify", "dispute", "add_note", "deactivate"}
      [] status = "verified" -> {"dispute", "add_note", "deactivate"}
      [] status = "disputed" -> {"start_review", "add_note", "deactivate"}
      [] OTHER -> {}

nextStatus(status, action) ==
    CASE action = "start_review" -> "under_review"
      [] action = "verify" -> "verified"
      [] action = "dispute" -> "disputed"
      [] action = "deactivate" -> "inactive"
      [] OTHER -> status

AppendCaseGraphEvent(d, request) ==
    /\ CaseOpen(d[2]) /\ New(d, request)
    /\ \E action \in graphActions(document[d].status) :
         Transact(Appended(d, request, action,
           [document[d] EXCEPT !.status = nextStatus(@, action)]))

\* An update that changes nothing is answered so.
UpdateCasePartyProfile(d, request) ==
    /\ d[1] = "party"
    /\ CaseOpen(d[2]) /\ New(d, request)
    /\ document[d].status # "inactive"
    /\ Transact(Appended(d, request, "party_profile_updated", document[d]))

-----------------------------------------------------------------------------
\* Legal holds, of closed cases too.

Held(s, count) ==
    CaseFile(s) :> [document[CaseFile(s)] EXCEPT
                      !.activeHolds = count, !.held = count > 0]

StartLegalHold(s, i) ==
    /\ ~Exists(LegalHold(s, i))
    /\ Transact(Opened(LegalHold(s, i), "legal_hold_started",
                       [status |-> "active"])
                @@ Held(s, document[CaseFile(s)].activeHolds + 1))

\* Mutant of Releasable: a hold may be released more than once.
ReleasableAgain(d) == Exists(d)

Releasable(d) == document[d].status = "active"

ReleaseLegalHold(d, request) ==
    LET count == document[CaseFile(d[2])].activeHolds IN
    /\ New(d, request) /\ Releasable(d)
    /\ Transact(Appended(d, request, "legal_hold_released",
                         [document[d] EXCEPT !.status = "released"])
                @@ Held(d[2], IF count = 0 THEN 0 ELSE count - 1))

-----------------------------------------------------------------------------
\* Retention.

\* over: the retention period is over when the call reads the clock, before
\* its transaction.
dispositionOf(s, over) ==
    IF ~over THEN "not_due"
    ELSE IF document[CaseFile(s)].status # "closed"
      THEN "blocked_by_case_lifecycle"
    ELSE IF document[CaseFile(s)].held THEN "blocked_by_legal_hold"
    ELSE "eligible_for_disposition"

Retained(s, policyVersion, over) ==
    [policyVersion |-> policyVersion, disposition |-> dispositionOf(s, over)]

\* The case repeats what the record says.
Projected(s, retained) ==
    CaseFile(s) :> [document[CaseFile(s)] EXCEPT !.retention = retained]

\* The policy may count from the closing of the case, once it is closed.
SetRetentionPolicy(s, over) ==
    LET d == RetentionRecord(s)
        retained == Retained(s, IF Exists(d) THEN document[d].policyVersion + 1
                                ELSE 1, over) IN
    \/ /\ ~Exists(d)
       /\ Transact(Opened(d, "retention_policy_set", retained)
                   @@ Projected(s, retained))
    \/ /\ Exists(d)
       /\ \E request \in Requested(d) :
            /\ New(d, request)
            /\ Transact(Appended(d, request, "retention_policy_updated",
                                 retained @@ document[d])
                        @@ Projected(s, retained))

AssessDisposition(d, request, over) ==
    LET retained == Retained(d[2], document[d].policyVersion, over) IN
    /\ New(d, request)
    /\ Transact(Appended(d, request, "retention_disposition_assessed",
                         retained @@ document[d])
                @@ Projected(d[2], retained))

-----------------------------------------------------------------------------
\* Export.

OfCase(d, s) ==
    \/ d[1] \in SectionKinds \cup {"caseEvent"} /\ d[2] = s
    \/ d[1] = "recordEvent" /\ d[2][2] = s

\* The case as one transaction reads it.
buildManifest(s) ==
    [d \in {x \in DOMAIN document : OfCase(x, s)} |-> document[d]]

ExportReadiness(c, s) == Read(c, [pc |-> "export", manifest |-> buildManifest(s),
                                  source |-> s])

\* Only of the case that the client has seen.
CreateCaseExportPackage(c) ==
    LET s == call[c].source
        i == Cardinality(RecordsOf(s, "package")) + 1 IN
    /\ call[c].pc = "export"
    /\ i <= Bound("package")
    /\ buildManifest(s) = call[c].manifest
    /\ Commit(c, Package(s, i) :> [manifest |-> call[c].manifest]
                 @@ CaseEvent(s, Package(s, i)) :>
                      [type |-> "case_export_package_created"])

-----------------------------------------------------------------------------
Another(s, k) == Cardinality(RecordsOf(s, k)) + 1
RoomFor(k) == Room("recordEvent") /\ Room(k)

CasesNext(c) ==
    \/ \E source \in {d \in DOMAIN document :
                        d[1] \in SourceKinds \cup {"riskSignal"}} :
         Room("caseFile") /\ ReadCaseSource(c, source)
    \/ CreateCase(c)
    \/ \E s \in Cases :
         \/ Bound("close") = 1 /\ CloseCase(s)
         \/ RoomFor("hold") /\ StartLegalHold(s, Another(s, "hold"))
         \/ RoomFor("reviewTask") /\ \E assigned \in BOOLEAN :
              CreateReviewTask(s, Another(s, "reviewTask"), assigned)
         \/ RoomFor("party") /\ CreateParty(s, Another(s, "party"))
         \/ /\ RoomFor("relationship")
            /\ \E source, target \in RecordsOf(s, "party")
                      \cup RecordsOf(s, "reviewTask")
                      \cup {CaseFile(s), EvidenceRef(s)} :
                 CreateRelationship(s, Another(s, "relationship"),
                                    source, target)
         \/ /\ Room("recordEvent") /\ Bound("retention") = 1
            /\ \E over \in BOOLEAN : SetRetentionPolicy(s, over)
         \/ Bound("package") > 0 /\ ExportReadiness(c, s)
         \/ /\ Room("recordEvent") /\ Bound("chain") = 1
            /\ \E request \in Requested(EvidenceRef(s)) :
                 AppendChainEvent(s, request)
    \/ Room("recordEvent") /\
         \/ \E d \in Kind("reviewTask") : \E request \in Requested(d),
               type \in DOMAIN ReviewTaskExpected :
              AppendReviewTaskEvent(d, request, type)
         \/ \E d \in Kind("party") \cup Kind("relationship") :
              \E request \in Requested(d) :
                \/ AppendCaseGraphEvent(d, request)
                \/ UpdateCasePartyProfile(d, request)
         \/ \E d \in Kind("hold") : \E request \in Requested(d) :
              ReleaseLegalHold(d, request)
         \/ \E d \in Kind("retention") : \E request \in Requested(d),
               over \in BOOLEAN :
              AssessDisposition(d, request, over)
    \/ CreateCaseExportPackage(c)

-----------------------------------------------------------------------------
\* The events of record d among the documents of a case.
EventsOf(documents, d) ==
    {e \in DOMAIN documents : e[1] = "recordEvent" /\ e[2] = d}

Happened(documents, d, type) ==
    Cardinality({e \in EventsOf(documents, d) : documents[e].type = type})

\* What the detail callables verify: one chain of events up to the last.
EventsChained(documents, d) ==
    LET events == EventsOf(documents, d)
        count == documents[d].eventCount IN
    /\ Cardinality(events) = count
    /\ {documents[e].sequence : e \in events} = 1 .. count
    /\ count > 0 => documents[documents[d].last].sequence = count
    /\ \A e \in events : documents[e].sequence > 1 =>
         documents[documents[e].previous].sequence = documents[e].sequence - 1
    /\ \A e \in events : CaseEvent(d[2], e) \in DOMAIN documents

\* The status of a record is what its events make of it.
StatusTold(documents, d) ==
    LET x == documents[d] IN
    CASE d[1] = "reviewTask" ->
           /\ x.status = "completed" <=>
                Happened(documents, d, "review_completed") = 1
           /\ x.status = "cancelled" <=>
                Happened(documents, d, "task_cancelled") = 1
           /\ x.status \in {"completed", "cancelled"} =>
                documents[x.last].type \in {"review_completed",
                                            "task_cancelled"}
      [] d[1] = "evidenceRef" ->
           /\ x.review = "verified" <=>
                Happened(documents, d, "review_completed") = 1
           /\ Happened(documents, d, "sealed") =
                Happened(documents, d, "unsealed")
                  + IF x.custody = "sealed" THEN 1 ELSE 0
      [] d[1] \in {"party", "relationship"} ->
           x.status = "inactive" <=> documents[x.last].type = "deactivate"
      [] d[1] = "hold" ->
           x.status = "released" <=> x.eventCount = 2
      [] OTHER -> TRUE

Whole(documents, s) ==
    LET file == documents[CaseFile(s)]
        holds == {d \in DOMAIN documents :
                    d[1] = "hold" /\ documents[d].status = "active"} IN
    /\ file.activeHolds = Cardinality(holds)
    /\ file.held <=> holds # {}
    /\ RetentionRecord(s) \in DOMAIN documents =>
         /\ file.retention.disposition =
              documents[RetentionRecord(s)].disposition
         /\ file.retention.policyVersion =
              documents[RetentionRecord(s)].policyVersion
         /\ file.retention.disposition = "eligible_for_disposition" =>
              file.status = "closed"
    /\ \A d \in DOMAIN documents : d[1] \in SectionKinds \ {"caseFile"} =>
         EventsChained(documents, d) /\ StatusTold(documents, d)

\* A case file is whole, however its callables interleave, and so is what an
\* exported package holds of it: the case is held exactly while holds are
\* active and repeats its retention record, every record has one chain of
\* events, and its status is what they tell.
CaseFileWhole ==
    /\ \A s \in Cases : Whole(buildManifest(s), s)
    /\ \A p \in Kind("package") : Whole(document[p].manifest, p[2])
=============================================================================
