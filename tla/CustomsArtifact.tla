-------------------------- MODULE CustomsArtifact --------------------------
(***************************************************************************)
(* Official artifacts of submission packages: a PDF and a JSON manifest    *)
(* rendered from a package into storage, on top of CustomsSubmission.      *)
(*                                                                         *)
(* materialize is not one transaction.  A first one reserves the artifact  *)
(* of the package under a lease, then each object is created in storage or *)
(* verified against the bytes just rendered, then a second transaction     *)
(* publishes the artifact as ready.  A failure in between is recorded by a *)
(* third.  Several calls can be at it, the same request among them.        *)
(*                                                                         *)
(* The bytes depend on the package, which is immutable, and on the target  *)
(* unit that the submission had when the call reserved; so an object is    *)
(* modelled as that unit.                                                  *)
(***************************************************************************)
EXTENDS CustomsSubmission

CONSTANTS
    Calls,     \* invocations of materialize
    Artifacts  \* request ids of materialize

NoRequest == "no request"
Missing == "missing"

ASSUME ArtifactAssumption ==
    /\ Submissions # {}
    /\ NoRequest \notin Artifacts /\ Missing \notin Units

VARIABLES
    artifact,  \* the artifact field of every package document
    object,    \* the two objects in storage of every package
    work,      \* the invocations
    faults

artifactVars == <<artifact, object, work, faults>>
customsVars == <<protectionVars, submissionVars, artifactVars>>

Kinds == {"pdf", "json"}

ArtifactDocuments ==
    [status : {"none", "materializing", "ready", "failed_recoverable",
               "integrity_failed"},
     request : Artifacts \cup {NoRequest}, leased : BOOLEAN]
NoArtifact == [status |-> "none", request |-> NoRequest, leased |-> FALSE]

Pcs == {"idle", "pdf", "json", "finalize", "unavailable", "mismatch",
        "answered"}
WorkStates ==
    [pc : Pcs, sub : Submissions, version : Versions,
     request : Artifacts \cup {NoRequest}, unit : Units \cup {NoUnit}]
IdleWork ==
    [pc |-> "idle", sub |-> CHOOSE s \in Submissions : TRUE, version |-> 1,
     request |-> NoRequest, unit |-> NoUnit]

ArtifactTypeOK ==
    /\ artifact \in [Submissions -> [Versions -> ArtifactDocuments]]
    /\ object \in
         [Submissions -> [Versions -> [Kinds -> Units \cup {Missing}]]]
    /\ work \in [Calls -> WorkStates]
    /\ faults \in Nat

CustomsTypeOK == ProtectionTypeOK /\ SubmissionTypeOK /\ ArtifactTypeOK

CustomsInit ==
    /\ ProtectionInit
    /\ SubmissionInit
    /\ artifact = [s \in Submissions |-> [v \in Versions |-> NoArtifact]]
    /\ object =
         [s \in Submissions |->
            [v \in Versions |-> [k \in Kinds |-> Missing]]]
    /\ work = [c \in Calls |-> IdleWork]
    /\ faults = 0

-----------------------------------------------------------------------------
\* Bounds: storage failures, cut-offs and leases running out, and calls.
Fault == faults < budget["faults"] /\ faults' = faults + 1
Callable(c) ==
    /\ work[c].pc = "idle"
    /\ Cardinality({d \in Calls : work[d].pc # "idle"}) < budget["calls"]

\* Where call c works, and the artifact there.
ArtifactOf(c) == artifact[work[c].sub][work[c].version]
SetArtifact(c, document) ==
    artifact' = [artifact EXCEPT ![work[c].sub][work[c].version] = document]
Moves(c, pc) == work' = [work EXCEPT ![c].pc = pc]

\* The call throws; a later one may use its place.
Throws(c) == work' = [work EXCEPT ![c] = IdleWork]

\* The reservation is taken over from a request whose lease ran out, and by
\* a repetition of the request itself at any time.
Reservable(a, x) ==
    \/ a.status \in {"none", "failed_recoverable"}
    \/ a.status = "materializing" /\ (a.request = x \/ ~a.leased)

Reserve(c, s, v, x) ==
    /\ Callable(c)
    /\ package[s][v] # "absent"
    /\ Reservable(artifact[s][v], x)
    /\ artifact' = [artifact EXCEPT ![s][v] =
         [status |-> "materializing", request |-> x, leased |-> TRUE]]
    /\ work' = [work EXCEPT ![c] =
         [pc |-> "pdf", sub |-> s, version |-> v, request |-> x,
          unit |-> submission[s].unit]]
    /\ UNCHANGED <<object, faults, protectionVars, submissionVars>>

\* A ready artifact is answered as a duplicate, without a write.
AnswerReady(c, s, v, x) ==
    /\ Callable(c)
    /\ package[s][v] # "absent"
    /\ artifact[s][v].status = "ready"
    /\ work' = [work EXCEPT ![c] =
         [IdleWork EXCEPT !.pc = "answered", !.sub = s, !.version = v,
                          !.request = x]]
    /\ UNCHANGED <<artifact, object, faults, protectionVars, submissionVars>>

\* Rendering is deterministic, and the manifest names the digest of the PDF.
RenderedPdf(c) == work[c].unit
RenderedManifest(c) == RenderedPdf(c)
Rendered(c) ==
    IF work[c].pc = "pdf" THEN RenderedPdf(c) ELSE RenderedManifest(c)

ObjectOf(c) == object[work[c].sub][work[c].version][work[c].pc]
SetObject(c) ==
    object' = [object EXCEPT
                 ![work[c].sub][work[c].version][work[c].pc] = Rendered(c)]

\* Mutant of Verifies: an existing object is taken for the right one.
VerifiesAnyObject(c) == TRUE

\* createOrVerify: create-only, then compared with the rendered bytes.
Verifies(c) == ObjectOf(c) \in {Missing, Rendered(c)}

StoreObject(c) ==
    /\ work[c].pc \in Kinds
    /\ Verifies(c)
    /\ IF ObjectOf(c) = Missing THEN SetObject(c) ELSE UNCHANGED object
    /\ Moves(c, IF work[c].pc = "pdf" THEN "json" ELSE "finalize")
    /\ UNCHANGED <<artifact, faults, protectionVars, submissionVars>>

ObjectMismatch(c) ==
    /\ work[c].pc \in Kinds
    /\ ~Verifies(c)
    /\ Moves(c, "mismatch")
    /\ UNCHANGED <<artifact, object, faults, protectionVars, submissionVars>>

\* Storage fails, before the object was created or after.
StorageFails(c) ==
    /\ work[c].pc \in Kinds
    /\ Fault
    /\ \/ UNCHANGED object
       \/ ObjectOf(c) = Missing /\ SetObject(c)
    /\ Moves(c, "unavailable")
    /\ UNCHANGED <<artifact, protectionVars, submissionVars>>

\* The reservation is that of this request; its status is not looked at.
Reserved(c) == ArtifactOf(c).request = work[c].request

RecordFailure(c) ==
    /\ work[c].pc \in {"unavailable", "mismatch"}
    /\ IF Reserved(c)
       THEN SetArtifact(c, [ArtifactOf(c) EXCEPT !.status =
              IF work[c].pc = "mismatch" THEN "integrity_failed"
              ELSE "failed_recoverable"])
       ELSE UNCHANGED artifact
    /\ Throws(c)
    /\ UNCHANGED <<object, faults, protectionVars, submissionVars>>

HoldsReservation(c) ==
    /\ ArtifactOf(c).status = "materializing"
    /\ Reserved(c)
    /\ ArtifactOf(c).leased

\* The event id is of the request; that of the package tells whether the
\* request repeats the one recorded or reuses its id for another package.
MaterializedEvent(x, v) == <<x, "artifact", v>>
EventFound(c) ==
    {v \in Versions : Recorded(history[work[c].sub],
                               MaterializedEvent(work[c].request, v))}

\* The artifact, its event and the event counters of the submission.
Publish(c) ==
    LET s == work[c].sub
        id == MaterializedEvent(work[c].request, work[c].version) IN
    /\ work[c].pc = "finalize"
    /\ HoldsReservation(c)
    /\ EventFound(c) = {}
    /\ SetArtifact(c, [ArtifactOf(c) EXCEPT !.status = "ready"])
    /\ history' = [history EXCEPT ![s] = Append1(@, id)]
    /\ Moves(c, "answered")
    /\ UNCHANGED <<object, faults, submission, package, response,
                   protectionVars>>

\* The request was published before: it is answered as ready, and nothing is
\* written.
PublishedBefore(c) ==
    /\ work[c].pc = "finalize"
    /\ HoldsReservation(c)
    /\ EventFound(c) = {work[c].version}
    /\ Moves(c, "answered")
    /\ UNCHANGED <<artifact, object, faults, protectionVars, submissionVars>>

\* The second transaction fails: another call has the reservation, or the
\* request id was used for another package.
ReservationLost(c) ==
    /\ work[c].pc = "finalize"
    /\ \/ ~HoldsReservation(c)
       \/ EventFound(c) \ {work[c].version} # {}
    /\ Throws(c)
    /\ UNCHANGED <<artifact, object, faults, protectionVars, submissionVars>>

\* The invocation is cut off, or a transaction of it fails.
CutOff(c) ==
    /\ work[c].pc \notin {"idle", "answered"}
    /\ Fault
    /\ Throws(c)
    /\ UNCHANGED <<artifact, object, protectionVars, submissionVars>>

LeaseRunsOut(s, v) ==
    /\ artifact[s][v].status = "materializing" /\ artifact[s][v].leased
    /\ Fault
    /\ artifact' = [artifact EXCEPT ![s][v].leased = FALSE]
    /\ UNCHANGED <<object, work, protectionVars, submissionVars>>

\* A download is signed for an artifact that is ready, when the object
\* verifies against the descriptor.
Downloadable(s, v, k) ==
    artifact[s][v].status = "ready" /\ object[s][v][k] # Missing

MaterializeNext(c) ==
    \/ \E s \in Submissions, v \in Versions, x \in Artifacts :
         Reserve(c, s, v, x) \/ AnswerReady(c, s, v, x)
    \/ StoreObject(c)
    \/ ObjectMismatch(c)
    \/ StorageFails(c)
    \/ RecordFailure(c)
    \/ Publish(c)
    \/ PublishedBefore(c)
    \/ ReservationLost(c)
    \/ CutOff(c)

CustomsNext ==
    \/ ProtectionNext /\ UNCHANGED <<submissionVars, artifactVars>>
    \/ \E s \in Submissions : SubmissionNext(s) /\ UNCHANGED artifactVars
    \/ \E c \in Calls : MaterializeNext(c)
    \/ \E s \in Submissions, v \in Versions : LeaseRunsOut(s, v)

CustomsSpec == CustomsInit /\ [][CustomsNext]_customsVars

-----------------------------------------------------------------------------
(* Properties.                                                             *)

\* Every profile, intervention and submission has a whole journal, and a
\* submission counts its packages and responses right, whatever was
\* repeated or ran at the same time; publishing an artifact writes to the
\* same journal as the operations on the submission.  It is what the detail
\* views call "verified", and that the chain of events has no gap.  The state
\* is of its type: every status an event leads to is a known one.
JournalsWhole ==
    /\ CustomsTypeOK
    /\ \A e \in Entities : WholeJournal(journal[e])
    /\ \A s \in Submissions :
         WholeJournal(history[s]) /\ DetailVerified(s)

\* What a border intervention has on record is never lost, though an update
\* replaces the data and transitions go back and forth: the linked case, an
\* integrity signal, the references and the sign-off; an outcome somebody
\* answers for is signed off and has the reference it rests on.
InterventionRecordKept ==
    [][\A i \in Interventions :
         LET before == intervention[i]
             after == intervention'[i] IN
         /\ before.case # NoCase => after.case = before.case
         /\ before.signal => after.signal
         /\ before.approved => after.approved
         /\ before.decided => after.decided
         /\ after.status \in SignedStatuses => after.approved
         /\ after.status \in {"destroyed", "released"} => after.decided
         /\ after.status = "referred_to_authority" => after.authority
         /\ after.status # "absent" =>
              profile[after.profile].status # "absent"]_customsVars

\* A submission recorded as sent names the package that is and stays its
\* current one, generated after all approvals that the submission still
\* shows, from an active profile where its type asks for one; and a
\* concluded submission was sent and has its outcome response.
SubmittedPackageStands ==
    \A s \in Submissions :
      /\ submission[s].external # 0 =>
           /\ submission[s].external = submission[s].current
           /\ Gates(s)
           /\ LET frozen == package[s][submission[s].external] IN
              /\ frozen # "absent"
              /\ SubmissionType[s] = "fsmh_protection_application" =>
                   frozen = "active"
      /\ submission[s].outcome # 0 =>
           /\ submission[s].external # 0
           /\ submission[s].outcome \in response[s]
           /\ submission[s].status \in {"concluded", "archived"}

\* A ready artifact has both objects in storage, rendered from the same
\* state of the submission, and the event of its request in the history; the
\* manifest, which names the digest of the PDF, never exists without that
\* PDF, not even when calls of different requests take over from each other.
ReadyArtifactStored ==
    \A s \in Submissions, v \in Versions :
      /\ object[s][v]["json"] # Missing =>
           object[s][v]["pdf"] = object[s][v]["json"]
      /\ artifact[s][v].status = "ready" =>
           /\ \A k \in Kinds : Downloadable(s, v, k)
           /\ Recorded(history[s], MaterializedEvent(artifact[s][v].request, v))

\* "materialization is atomic, event chained and ready retry avoids Storage
\* writes" (artifact_unit.test.js:418): a call that was answered that the
\* artifact is ready leaves it ready.  Not kept by the code: README.md, under
\* "Disagreements".
AnsweredReadyIsReady ==
    \A c \in Calls :
      work[c].pc = "answered" => ArtifactOf(c).status = "ready"
=============================================================================
