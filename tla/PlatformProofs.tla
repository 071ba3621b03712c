--------------------------- MODULE PlatformProofs ---------------------------
(***************************************************************************)
(* What the callables over the document store keep, proved of any number   *)
(* of documents, open calls, samples, owners, users...  A component's      *)
(* invariant speaks of the documents of its own kinds and of its own calls *)
(* only; the steps of every other component leave both alone.              *)
(***************************************************************************)
EXTENDS Platform, FiniteSetTheorems, TLAPS

-----------------------------------------------------------------------------
(* What a handler writes.                                                  *)

\* What may be the identity of a document, and its kind: a detective task
\* bears the identity of its source.
Proper(d) == d # <<>> /\ (d[1] = "detectiveTask" => d[2] # <<>>)
KindOf(d) == IF Proper(d) THEN d[1] ELSE "none"

\* Document d is as it was.
Same(d) ==
    /\ d \in DOMAIN document' <=> d \in DOMAIN document
    /\ d \in DOMAIN document => document'[d] = document[d]

\* Nothing but documents of these kinds is written.
Leaves(kinds) == \A d : KindOf(d) \notin kinds => Same(d)

\* Call c goes on as next, and no other does.
Moved(c, next) ==
    /\ DOMAIN call' = Calls
    /\ call'[c] = next
    /\ \A d \in Calls \ {c} : call'[d] = call[d]

LEMMA WriteNone ==
  ASSUME document' = <<>> @@ document
  PROVE  \A d : Same(d)
  BY DEF Same, @@

LEMMA Write1 ==
  ASSUME NEW a, NEW x, document' = a :> x @@ document
  PROVE  /\ a \in DOMAIN document' /\ document'[a] = x
         /\ \A d : d # a => Same(d)
  BY DEF Same, @@, :>

LEMMA Write2 ==
  ASSUME NEW a, NEW x, NEW b, NEW y, a # b,
         document' = a :> x @@ b :> y @@ document
  PROVE  /\ a \in DOMAIN document' /\ document'[a] = x
         /\ b \in DOMAIN document' /\ document'[b] = y
         /\ \A d : d # a /\ d # b => Same(d)
  BY DEF Same, @@, :>

LEMMA Write3 ==
  ASSUME NEW a, NEW x, NEW b, NEW y, NEW e, NEW z, a # b, a # e, b # e,
         document' = a :> x @@ b :> y @@ e :> z @@ document
  PROVE  /\ a \in DOMAIN document' /\ document'[a] = x
         /\ b \in DOMAIN document' /\ document'[b] = y
         /\ e \in DOMAIN document' /\ document'[e] = z
         /\ \A d : d # a /\ d # b /\ d # e => Same(d)
  BY DEF Same, @@, :>

LEMMA Write4 ==
  ASSUME NEW a, NEW x, NEW b, NEW y, NEW e, NEW z, NEW f, NEW u,
         a # b, a # e, b # e, a # f, b # f, e # f,
         document' = a :> x @@ b :> y @@ e :> z @@ f :> u @@ document
  PROVE  /\ a \in DOMAIN document' /\ document'[a] = x
         /\ b \in DOMAIN document' /\ document'[b] = y
         /\ e \in DOMAIN document' /\ document'[e] = z
         /\ f \in DOMAIN document' /\ document'[f] = u
         /\ \A d : d # a /\ d # b /\ d # e /\ d # f => Same(d)
  BY DEF Same, @@, :>

LEMMA Leaves1 ==
  ASSUME NEW kinds, NEW a, NEW x, KindOf(a) \in kinds, document' = a :> x @@ document
  PROVE  Leaves(kinds)
  BY DEF Same, Leaves, @@, :>

LEMMA Leaves2 ==
  ASSUME NEW kinds, NEW a, NEW x, NEW b, NEW y, KindOf(a) \in kinds, KindOf(b) \in kinds,
         document' = a :> x @@ b :> y @@ document
  PROVE  Leaves(kinds)
  BY DEF Same, Leaves, @@, :>

LEMMA Leaves3 ==
  ASSUME NEW kinds, NEW a, NEW x, NEW b, NEW y, NEW e, NEW z,
         KindOf(a) \in kinds, KindOf(b) \in kinds, KindOf(e) \in kinds,
         document' = a :> x @@ b :> y @@ e :> z @@ document
  PROVE  Leaves(kinds)
  BY DEF Same, Leaves, @@, :>

LEMMA Leaves4 ==
  ASSUME NEW kinds, NEW a, NEW x, NEW b, NEW y, NEW e, NEW z, NEW f, NEW u,
         KindOf(a) \in kinds, KindOf(b) \in kinds, KindOf(e) \in kinds, KindOf(f) \in kinds,
         document' = a :> x @@ b :> y @@ e :> z @@ f :> u @@ document
  PROVE  Leaves(kinds)
  BY DEF Same, Leaves, @@, :>

LEMMA ReadIs ==
  ASSUME DOMAIN call = Calls, NEW c \in Calls, NEW next, Read(c, next)
  PROVE  (\A d : Same(d)) /\ Moved(c, next)
  <1>1. document' = <<>> @@ document /\ call' = [call EXCEPT ![c] = next]
    BY DEF Read, Claim
  <1> QED BY <1>1, WriteNone DEF Moved

LEMMA StepIs ==
  ASSUME DOMAIN call = Calls, NEW c \in Calls, NEW next, NEW w, Step(c, w, next)
  PROVE  document' = w @@ document /\ Moved(c, next)
  BY DEF Step, Moved

LEMMA CommitIs ==
  ASSUME DOMAIN call = Calls, NEW c \in Calls, NEW w, Commit(c, w)
  PROVE  document' = w @@ document /\ Moved(c, Idle)
  BY StepIs DEF Commit

\* All documents written are of these kinds.
OfKinds(w, kinds) == \A d \in DOMAIN w : KindOf(d) \in kinds

LEMMA LeavesOther ==
  ASSUME NEW kinds, NEW w, OfKinds(w, kinds), document' = w @@ document
  PROVE  Leaves(kinds)
  BY DEF Same, Leaves, OfKinds, @@

LEMMA PutOfKinds ==
  ASSUME NEW kinds, NEW a, NEW x, KindOf(a) \in kinds
  PROVE  OfKinds(a :> x, kinds)
  BY DEF OfKinds, :>

LEMMA OverOfKinds ==
  ASSUME NEW kinds, NEW f, NEW g, OfKinds(f, kinds), OfKinds(g, kinds)
  PROVE  OfKinds(f @@ g, kinds)
  BY DEF OfKinds, @@

LEMMA NoneOfKinds ==
  ASSUME NEW kinds
  PROVE  OfKinds(<<>>, kinds)
  BY DEF OfKinds

-----------------------------------------------------------------------------
(* The kinds of documents and the open calls of each component, and what   *)
(* its steps leave of the others.                                          *)

WorkspaceKinds == {"case", "sample", "event", "request", "result", "finding",
                   "appeal", "audit"}
WorkspacePcs == {"append_custody", "create_test_request",
                 "adjudicate_finding", "resolve_appeal"}

LaboratoriesKinds == {"laboratory", "accreditation", "registryAudit", "key"}

DetectiveKinds == {"submission", "operation", "detectiveTask", "agentTask",
                   "execution", "agentResult"}
DetectivePcs == {"dispatch", "caught", "record"}

TraceabilityKinds == {"productCode", "scan", "traceabilityCase"}

RiskKinds == {"sourceRecord", "riskSignal", "riskReceipt", "riskAudit"}
RiskPcs == {"promote"}

CasesKinds == {"caseFile", "evidenceRef", "retention", "reviewTask", "party",
               "relationship", "hold", "package", "recordEvent", "caseEvent"}
CasesPcs == {"openCase", "export"}

UploadsKinds == {"uploadSession", "uploads", "staged", "permanent",
                 "evidenceObject", "caseEvent"}
UploadsPcs == {"upload", "reserve", "promote_object", "bind"}

TwinsKinds == {"twinReport", "comparison", "reportDeletion", "twinRecord"}

PriorityKinds == {"creation", "creationVersion", "registryOwner",
                  "ownerNumber"}

SponsorKinds == {"sponsor", "sponsorEvent", "logo"}
SponsorPcs == {"sponsor", "sponsorDone"}

SupplyKinds == {"partner", "facility", "control", "asset"}

BrandKinds == {"brandApplication", "brand", "subscription", "tenant",
               "entryAttempts"}

\* The documents that an open call is to write are of the kinds of its
\* component.
WorkspaceCall(x) ==
    /\ x.pc = "append_custody" => KindOf(x.event) = "event"
    /\ x.pc = "create_test_request" => KindOf(x.request) = "request"
    /\ x.pc = "adjudicate_finding" => KindOf(x.finding) = "finding"
    /\ x.pc = "resolve_appeal" => KindOf(x.appeal) = "appeal"

DetectiveCall(x) ==
    x.pc \in DetectivePcs =>
      /\ x = [pc |-> x.pc, task |-> x.task]
      /\ KindOf(x.task) = "detectiveTask"

UploadsCall(x) ==
    x.pc \in UploadsPcs =>
      /\ KindOf(x.session) = "uploadSession"
      /\ x.pc # "upload" =>
           x = [pc |-> x.pc, session |-> x.session,
                generation |-> x.generation, expired |-> x.expired]

SponsorCall(x) ==
    /\ x.pc = "sponsor" =>
         /\ KindOf(x.record) = "sponsor"
         /\ x.uploaded = NoFile \/ KindOf(x.uploaded) = "logo"
    /\ x.pc = "sponsorDone" => x.before = NoFile \/ KindOf(x.before) = "logo"

Shape(x) ==
    /\ WorkspaceCall(x) /\ DetectiveCall(x) /\ UploadsCall(x)
    /\ SponsorCall(x)

\* The logo of a sponsor is a logo.
Shapes ==
    /\ \A d \in DOMAIN document : Proper(d)
    /\ DOMAIN call = Calls
    /\ \A c \in Calls : Shape(call[c])
    /\ \A d \in Kind("sponsor") :
         document[d].path = NoFile \/ KindOf(document[d].path) = "logo"

\* A step of a component: its documents, and one of its calls at most.
Touches(kinds, pcs) ==
    /\ Leaves(kinds)
    /\ \/ UNCHANGED call
       \/ \E next : \E c \in Calls :
            Moved(c, next) /\ Shape(next) /\ next.pc \in pcs \cup {"idle"}

LEMMA KindIs ==
  ASSUME Shapes, NEW k, NEW d \in Kind(k)
  PROVE  KindOf(d) = k
  BY DEF Shapes, Kind, KindOf

LEMMA IdleShape == Shape(Idle) /\ Idle.pc = "idle"
  BY DEF Shape, Idle, WorkspaceCall, DetectiveCall, UploadsCall, SponsorCall,
     DetectivePcs, UploadsPcs

LEMMA CommitTouches ==
  ASSUME NEW kinds, NEW pcs, NEW c \in Calls, Leaves(kinds), Moved(c, Idle)
  PROVE  Touches(kinds, pcs)
  BY IdleShape DEF Touches

LEMMA ReadTouches ==
  ASSUME NEW kinds, NEW pcs, NEW c \in Calls, DOMAIN call = Calls,
         NEW next, Read(c, next), Shape(next), next.pc \in pcs
  PROVE  Touches(kinds, pcs)
  <1>1. (\A d : Same(d)) /\ Moved(c, next)
    BY ReadIs
  <1> QED BY <1>1 DEF Touches, Leaves

LEMMA StepTouches ==
  ASSUME NEW kinds, NEW pcs, NEW c \in Calls, DOMAIN call = Calls,
         NEW next, Shape(next), next.pc \in pcs, Leaves(kinds), Moved(c, next)
  PROVE  Touches(kinds, pcs)
  BY DEF Touches

LEMMA TransactTouches ==
  ASSUME NEW kinds, NEW pcs, Leaves(kinds), UNCHANGED call
  PROVE  Touches(kinds, pcs)
  BY DEF Touches

LEMMA WorkspaceNames ==
  /\ WorkspaceKinds = {"case", "sample", "event", "request", "result",
                       "finding", "appeal", "audit"}
  /\ KindOf(Case) = "case"
  /\ \A s, n, t :
       /\ KindOf(Sample(s)) = "sample" /\ KindOf(Audit(s, n)) = "audit"
       /\ KindOf(CustodyEvent(s, n, t)) = "event" /\ KindOf(TestRequest(n)) = "request"
       /\ KindOf(TestResult(n)) = "result" /\ KindOf(Finding(n)) = "finding"
       /\ KindOf(Appeal(n)) = "appeal"
  BY DEF KindOf, Proper, WorkspaceKinds, Case, Sample, CustodyEvent, TestRequest, TestResult,
     Finding, Appeal, Audit

\* The part of the workspace that leaves the case and its custody alone.
TestKinds == {"request", "result", "finding", "appeal", "audit"}
TestPcs == {"create_test_request", "adjudicate_finding", "resolve_appeal"}

TestReads(c) ==
    \/ \E op, i, lab, a : CreateOdlaTestRequest(c, op, i, lab, a)
    \/ \E op, i, final, r : AdjudicateOdlaFinding(c, op, i, final, r)
    \/ \E op, i, conflict, final : ResolveOdlaAppeal(c, op, i, conflict, final)

TestWrites(c) ==
    \/ CreateTestRequest(c)
    \/ \E op, i, r : RecordOdlaTestResult(op, i, r)
    \/ WriteFinding(c)
    \/ \E op, i, f : OpenOdlaAppeal(op, i, f)
    \/ ResolveAppeal(c)

LEMMA WorkspaceRead ==
  ASSUME Shapes, NEW c \in Calls, NEW next, Read(c, next), WorkspaceCall(next),
         NEW kinds, NEW pcs, next.pc \in pcs, next.pc \in WorkspacePcs
  PROVE  Touches(kinds, pcs)
  <1>1. Shape(next)
    BY DEF Shape, WorkspacePcs, DetectiveCall, UploadsCall, SponsorCall,
       DetectivePcs, UploadsPcs
  <1> QED BY <1>1, ReadTouches DEF Shapes

LEMMA TestReadsTouch ==
  ASSUME Shapes, NEW c \in Calls, TestReads(c)
  PROVE  Touches(TestKinds, TestPcs)
  <1> DEFINE Reading == \E next :
               Read(c, next) /\ WorkspaceCall(next) /\ next.pc \in TestPcs
  <1>1. ASSUME NEW op, NEW i, NEW lab, NEW a,
               CreateOdlaTestRequest(c, op, i, lab, a)
        PROVE  Reading
    BY <1>1, WorkspaceNames DEF CreateOdlaTestRequest, WorkspaceCall, TestPcs
  <1>2. ASSUME NEW op, NEW i, NEW final, NEW r,
               AdjudicateOdlaFinding(c, op, i, final, r)
        PROVE  Reading
    BY <1>2, WorkspaceNames DEF AdjudicateOdlaFinding, WorkspaceCall, TestPcs
  <1>3. ASSUME NEW op, NEW i, NEW conflict, NEW final,
               ResolveOdlaAppeal(c, op, i, conflict, final)
        PROVE  Reading
    BY <1>3, WorkspaceNames DEF ResolveOdlaAppeal, WorkspaceCall, TestPcs
  <1> HIDE DEF Reading
  <1>4. Reading
    BY <1>1, <1>2, <1>3 DEF TestReads
  <1>5. PICK next : Read(c, next) /\ WorkspaceCall(next) /\ next.pc \in TestPcs
    BY <1>4 DEF Reading
  <1>6. next.pc \in WorkspacePcs
    BY <1>5 DEF TestPcs, WorkspacePcs
  <1> QED BY <1>5, <1>6, WorkspaceRead

LEMMA TestsTouch ==
  ASSUME Shapes, NEW c \in Calls, TestReads(c) \/ TestWrites(c)
  PROVE  Touches(TestKinds, TestPcs)
  <1> DEFINE K == TestKinds
  <1>1. DOMAIN call = Calls /\ WorkspaceCall(call[c])
    BY DEF Shapes, Shape
  <1>2. K = {"request", "result", "finding", "appeal", "audit"}
    BY DEF TestKinds
  <1>4. ASSUME CreateTestRequest(c)
        PROVE  Leaves(K) /\ Moved(c, Idle)
    <2> DEFINE r == call[c].request
               a == Audit("create_test_request", call[c].op)
    <2>1. KindOf(r) = "request"
      BY <1>1, <1>4 DEF CreateTestRequest, WorkspaceCall
    <2>2. CASE call[c].appeal = NoId
      <3>1. PICK x, y : Commit(c, r :> x @@ a :> y)
        BY <1>4, <2>2 DEF CreateTestRequest, Record
      <3> HIDE DEF r
      <3> QED BY <1>1, <2>1, <3>1, Leaves2, CommitIs, WorkspaceNames,
                  <1>2
    <2>3. CASE call[c].appeal # NoId
      <3>1. PICK x, y, z :
              Commit(c, r :> x @@ a :> y @@ Appeal(call[c].appeal) :> z)
        BY <1>4, <2>3 DEF CreateTestRequest, Record
      <3> HIDE DEF r
      <3> QED BY <1>1, <2>1, <3>1, Leaves3, CommitIs, WorkspaceNames,
                  <1>2
    <2> QED BY <2>2, <2>3
  <1>5. ASSUME NEW op, NEW i, NEW r, RecordOdlaTestResult(op, i, r)
        PROVE  Leaves(K) /\ UNCHANGED call
    <2>1. PICK x, y : Transact(TestResult(i) :> x
                               @@ Audit("record_test_result", op) :> y)
      BY <1>5, Zenon DEF RecordOdlaTestResult, Record
    <2> QED BY <1>2, <2>1, Leaves2, WorkspaceNames DEF Transact
  <1>6. ASSUME WriteFinding(c)
        PROVE  Leaves(K) /\ Moved(c, Idle)
    <2>1. PICK x, y :
            Commit(c, call[c].finding :> x
                      @@ Audit("adjudicate_finding", call[c].op) :> y)
      BY <1>6, Zenon DEF WriteFinding, Record
    <2>2. KindOf(call[c].finding) = "finding"
      BY <1>1, <1>6 DEF WriteFinding, WorkspaceCall
    <2> QED BY <1>1, <2>1, <2>2, Leaves2, CommitIs, WorkspaceNames,
                  <1>2
  <1>7. ASSUME NEW op, NEW i, NEW f, OpenOdlaAppeal(op, i, f)
        PROVE  Leaves(K) /\ UNCHANGED call
    <2>1. PICK x, y : Transact(Appeal(i) :> x @@ Audit("open_appeal", op) :> y)
      BY <1>7, Zenon DEF OpenOdlaAppeal, Record
    <2> QED BY <1>2, <2>1, Leaves2, WorkspaceNames DEF Transact
  <1>8. ASSUME ResolveAppeal(c)
        PROVE  Leaves(K) /\ Moved(c, Idle)
    <2>1. PICK x, y :
            Commit(c, call[c].appeal :> x
                      @@ Audit("resolve_appeal", call[c].op) :> y)
      BY <1>8, Zenon DEF ResolveAppeal
    <2>2. KindOf(call[c].appeal) = "appeal"
      BY <1>1, <1>8 DEF ResolveAppeal, WorkspaceCall
    <2> QED BY <1>1, <2>1, <2>2, Leaves2, CommitIs, WorkspaceNames,
                  <1>2
  <1> HIDE DEF K
  <1>9. \/ Leaves(K) /\ UNCHANGED call
        \/ Leaves(K) /\ Moved(c, Idle)
        \/ TestReads(c)
    BY <1>4, <1>5, <1>6, <1>7, <1>8 DEF TestWrites
  <1> QED
    BY <1>9, TestReadsTouch, CommitTouches, TransactTouches DEF K

\* Who opens the case and appends to the custody of its samples.
LEMMA WorkspaceSteps ==
  ASSUME NEW c \in Calls, WorkspaceNext(c)
  PROVE  \/ \E op : CreateOdlaVerificationCase(op)
         \/ \E s \in Samples : \E op, type, seal :
              AppendOdlaChainOfCustodyEvent(c, op, s, type, seal)
         \/ AppendCustodyEvent(c)
         \/ TestReads(c) \/ TestWrites(c)
  <1>1. WorkspaceReads(c) =>
          \/ \E s \in Samples : \E op, type, seal :
               AppendOdlaChainOfCustodyEvent(c, op, s, type, seal)
          \/ TestReads(c)
    BY Zenon DEF WorkspaceReads, TestReads
  <1> QED BY <1>1, Zenon DEF WorkspaceNext, TestWrites

LEMMA CaseTouches ==
  ASSUME Shapes, NEW op, CreateOdlaVerificationCase(op)
  PROVE  Touches({"case", "audit"}, {})
  <1>1. PICK x, y : Transact(Case :> x @@ Audit("create_case", op) :> y)
    BY Zenon DEF CreateOdlaVerificationCase, Record
  <1>2. Leaves({"case", "audit"}) /\ UNCHANGED call
    BY <1>1, Leaves2, WorkspaceNames DEF Transact
  <1> QED BY <1>2, TransactTouches

LEMMA AppendTouches ==
  ASSUME Shapes, NEW c \in Calls, AppendCustodyEvent(c)
  PROVE  Touches(WorkspaceKinds, {})
  <1> DEFINE K == WorkspaceKinds
  <1>1. DOMAIN call = Calls /\ WorkspaceCall(call[c])
    BY DEF Shapes, Shape
  <1>2. Leaves(K) /\ Moved(c, Idle)
    <2> DEFINE e == call[c].event
    <2>1. PICK x, y, z, u :
            Commit(c, e :> x @@ Audit("append_custody", call[c].op) :> y
                      @@ Sample(e[2]) :> z @@ Case :> u)
      BY Zenon DEF AppendCustodyEvent, Record
    <2>2. KindOf(e) = "event"
      BY <1>1 DEF AppendCustodyEvent, WorkspaceCall
    <2>3. /\ KindOf(e) \in K /\ KindOf(Audit("append_custody", call[c].op)) \in K
          /\ KindOf(Sample(e[2])) \in K /\ KindOf(Case) \in K
      BY <2>2, WorkspaceNames
    <2> HIDE DEF e, K
    <2>4. /\ document' = e :> x @@ Audit("append_custody", call[c].op) :> y
                          @@ Sample(e[2]) :> z @@ Case :> u @@ document
          /\ Moved(c, Idle)
      BY <1>1, <2>1, CommitIs
    <2> QED BY <2>3, <2>4, Leaves4
  <1> QED BY <1>2, CommitTouches

LEMMA TouchesMore ==
  ASSUME NEW kinds, NEW pcs, NEW more, NEW morePcs, Touches(kinds, pcs),
         kinds \subseteq more, pcs \subseteq morePcs
  PROVE  Touches(more, morePcs)
  BY DEF Touches, Leaves

LEMMA WorkspaceTouches ==
  ASSUME Shapes, NEW c \in Calls, WorkspaceNext(c)
  PROVE  Touches(WorkspaceKinds, WorkspacePcs)
  <1>1. /\ TestKinds \subseteq WorkspaceKinds /\ TestPcs \subseteq WorkspacePcs
        /\ {"case", "audit"} \subseteq WorkspaceKinds
    BY DEF TestKinds, WorkspaceKinds, TestPcs, WorkspacePcs
  <1>2. ASSUME NEW op, NEW s, NEW type, NEW seal,
               AppendOdlaChainOfCustodyEvent(c, op, s, type, seal)
        PROVE  Touches(WorkspaceKinds, WorkspacePcs)
    <2>1. PICK next : /\ Read(c, next) /\ WorkspaceCall(next)
                      /\ next.pc \in WorkspacePcs
      BY <1>2, WorkspaceNames
      DEF AppendOdlaChainOfCustodyEvent, WorkspaceCall, WorkspacePcs
    <2> QED BY <2>1, WorkspaceRead
  <1> QED
    BY <1>1, <1>2, WorkspaceSteps, CaseTouches, AppendTouches, TestsTouch,
       TouchesMore

LEMMA DetectiveNames ==
  /\ DetectiveKinds = {"submission", "operation", "detectiveTask",
                       "agentTask", "execution", "agentResult"}
  /\ \A t, x, a :
       /\ KindOf(Submission(t)) = "submission" /\ KindOf(Operation(t)) = "operation"
       /\ KindOf(DetectiveTask(Submission(t))) = "detectiveTask"
       /\ KindOf(DetectiveTask(Operation(t))) = "detectiveTask"
       /\ KindOf(AgentTask(t, a)) = "agentTask"
       /\ KindOf(Execution(t, x)) = "execution"
       /\ KindOf(AgentResult(t, x, a)) = "agentResult"
  BY DEF KindOf, Proper, DetectiveKinds, Submission, Operation, DetectiveTask, AgentTask,
     Execution, AgentResult

\* A dispatch writes its task, or nothing, and goes on or ends.
LEMMA DispatchTouches ==
  ASSUME Shapes, NEW c \in Calls, NEW t, KindOf(t) = "detectiveTask",
         NEW w, w = <<>> \/ \E x : w = t :> x,
         NEW next, Step(c, w, next),
         \/ next = Idle
         \/ \E p \in DetectivePcs : next = [pc |-> p, task |-> t]
  PROVE  Touches(DetectiveKinds, DetectivePcs)
  <1>1. document' = w @@ document /\ Moved(c, next)
    BY StepIs DEF Shapes
  <1>2. OfKinds(w, DetectiveKinds)
    BY PutOfKinds, NoneOfKinds, DetectiveNames
  <1>3. Leaves(DetectiveKinds)
    BY <1>1, <1>2, LeavesOther
  <1>4. Shape(next) /\ next.pc \in DetectivePcs \cup {"idle"}
    BY IdleShape
    DEF Shape, DetectiveCall, WorkspaceCall, UploadsCall, SponsorCall,
        UploadsPcs, DetectivePcs
  <1> QED BY <1>1, <1>3, <1>4 DEF Touches

LEMMA DetectiveTouches ==
  ASSUME Shapes, NEW c \in Calls, DetectiveNext(c)
  PROVE  Touches(DetectiveKinds, DetectivePcs)
  <1> DEFINE K == DetectiveKinds
             Done == Touches(DetectiveKinds, DetectivePcs)
             t == call[c].task
  <1>1. DOMAIN call = Calls
    BY DEF Shapes
  <1>2. call[c].pc \in DetectivePcs => KindOf(t) = "detectiveTask"
    BY DEF Shapes, Shape, DetectiveCall
  <1>3. /\ {"dispatch", "caught", "record"} = DetectivePcs
        /\ \A v, x : Updated(v) = [document[v] EXCEPT !.version = @ + 1]
    BY DEF DetectivePcs, Updated
  <1>4. ASSUME NEW s, CreateDigitalDetectiveTask(s)
        PROVE  Done
    <2>1. PICK x, y : Transact(Submission(s) :> x
                               @@ DetectiveTask(Submission(s)) :> y)
      BY <1>4, Zenon DEF CreateDigitalDetectiveTask
    <2>2. Leaves(K) /\ UNCHANGED call
      BY <2>1, Leaves2, DetectiveNames DEF Transact
    <2> QED BY <2>2, TransactTouches
  <1>5. ASSUME NEW o, CreateAiFieldOperation(o)
        PROVE  Done
    <2> DEFINE f == Operation(o) :> [status |-> "queued", processed |-> 0,
                                     execution |-> NoExecution]
               g == [d \in {AgentTask(Operation(o), a) : a \in Agents} |->
                       [status |-> "pending"]]
    <2>1. Transact(f @@ g)
      BY <1>5 DEF CreateAiFieldOperation
    <2>2. OfKinds(f, K)
      BY PutOfKinds, DetectiveNames
    <2>3. OfKinds(g, K)
      BY DetectiveNames DEF OfKinds
    <2> HIDE DEF f, g
    <2>4. Leaves(K) /\ UNCHANGED call
      BY <2>1, <2>2, <2>3, OverOfKinds, LeavesOther DEF Transact
    <2> QED BY <2>4, TransactTouches
  <1>6. ASSUME NEW o, AiFieldOperationBridge(o)
        PROVE  Done
    <2>1. Transact(DetectiveTask(Operation(o)) :> TaskDocument)
      BY <1>6 DEF AiFieldOperationBridge
    <2>2. Leaves(K) /\ UNCHANGED call
      BY <2>1, Leaves1, DetectiveNames DEF Transact
    <2> QED BY <2>2, TransactTouches
  <1>7. ASSUME NEW d \in DetectiveTasks, ClaimDispatch(c, d)
        PROVE  Done
    <2>1. PICK x : Step(c, d :> x, [pc |-> "dispatch", task |-> d])
      BY <1>7 DEF ClaimDispatch, Claim, Step
    <2>2. KindOf(d) = "detectiveTask"
      BY KindIs DEF DetectiveTasks
    <2> QED BY <1>3, <2>1, <2>2, DispatchTouches
  <1>8. ASSUME WebhookAnswered(c) \/ NoToken(c) \/ RecordFailure(c)
        PROVE  Done
    <2>1. /\ call[c].pc \in DetectivePcs
          /\ \E x : Step(c, t :> x, Idle)
      BY <1>3, <1>8
      DEF WebhookAnswered, NoToken, RecordFailure, Failed, Commit
    <2> HIDE DEF t
    <2> QED BY <1>2, <2>1, DispatchTouches
  <1>9. ASSUME WebhookFailed(c) \/ CatchFailure(c)
        PROVE  Done
    <2>1. call[c].pc \in DetectivePcs
      BY <1>3, <1>9 DEF WebhookFailed, CatchFailure
    <2>2. call[c] = [pc |-> call[c].pc, task |-> t]
      BY <2>1 DEF Shapes, Shape, DetectiveCall
    <2>3. \A p : [call[c] EXCEPT !.pc = p] = [pc |-> p, task |-> t]
      <3> HIDE DEF t
      <3> QED BY <2>2
    <2>4. CASE WebhookFailed(c)
      <3>1. PICK w \in {Failed(t), <<>>} :
              Step(c, w, [call[c] EXCEPT !.pc = "caught"])
        BY <2>4 DEF WebhookFailed
      <3>2. w = <<>> \/ \E x : w = t :> x
        BY <3>1 DEF Failed
      <3>3. Step(c, w, [pc |-> "caught", task |-> t])
        BY <2>3, <3>1
      <3> HIDE DEF t
      <3> QED BY <1>2, <1>3, <2>1, <3>2, <3>3, DispatchTouches
    <2>5. CASE CatchFailure(c)
      <3>1. \/ Step(c, <<>>, Idle)
            \/ Step(c, <<>>, [call[c] EXCEPT !.pc = "record"])
        BY <2>5 DEF CatchFailure, Commit
      <3>2. \/ Step(c, <<>>, Idle)
            \/ Step(c, <<>>, [pc |-> "record", task |-> t])
        BY <2>3, <3>1
      <3> HIDE DEF t
      <3> QED BY <1>2, <1>3, <2>1, <3>2, DispatchTouches
    <2> QED BY <1>9, <2>4, <2>5
  <1>10. ASSUME NEW d \in DetectiveTasks, NEW x, NEW a, NEW status,
                PersistDigitalDetectiveResult(d, x, a, status)
         PROVE  Done
    <2> DEFINE o == SourceOperation(d)
    <2>1. PICK p, q, r, u, v :
            Transact(AgentResult(d, x, a) :> p @@ Execution(d, x) :> q
                     @@ d :> r
                     @@ IF o[1] # "operation" THEN <<>>
                        ELSE AgentTask(o, a) :> u @@ o :> v)
      BY <1>10, ZenonT(30) DEF PersistDigitalDetectiveResult
    <2> DEFINE f == AgentResult(d, x, a) :> p @@ Execution(d, x) :> q @@ d :> r
               g == IF o[1] # "operation" THEN <<>>
                    ELSE AgentTask(o, a) :> u @@ o :> v
    <2>2. OfKinds(f, K)
      BY KindIs, PutOfKinds, OverOfKinds, DetectiveNames DEF DetectiveTasks
    <2>3. OfKinds(g, K)
      <3>1. o[1] = "operation" => KindOf(o) = "operation"
        BY DEF Shapes, DetectiveTasks, Kind, KindOf, Proper, SourceOperation
      <3> HIDE DEF o
      <3>3. CASE o[1] # "operation"
        BY <3>3, NoneOfKinds
      <3>4. CASE o[1] = "operation"
        BY <3>1, <3>4, PutOfKinds, OverOfKinds, DetectiveNames
      <3> QED BY <3>3, <3>4
    <2>4. Transact(f @@ g)
      BY <2>1
    <2> HIDE DEF f, g
    <2>5. Leaves(K) /\ UNCHANGED call
      BY <2>2, <2>3, <2>4, OverOfKinds, LeavesOther DEF Transact
    <2> QED BY <2>5, TransactTouches
  <1> HIDE DEF Done
  <1>11. Done
    BY <1>4, <1>5, <1>6, <1>7, <1>8, <1>9, <1>10 DEF DetectiveNext
  <1> QED BY <1>11 DEF Done

LEMMA RiskNames ==
  /\ RiskKinds = {"sourceRecord", "riskSignal", "riskReceipt", "riskAudit"}
  /\ RiskPcs = {"promote"}
  /\ \A s : /\ KindOf(SourceRecord(s)) = "sourceRecord" /\ KindOf(Signal(s)) = "riskSignal"
            /\ KindOf(Receipt(s)) = "riskReceipt" /\ KindOf(RiskAudit(s)) = "riskAudit"
  BY DEF KindOf, Proper, RiskKinds, RiskPcs, SourceRecord, Signal, Receipt, RiskAudit

\* Calls that name no document they are to write.
LEMMA PlainShape ==
  ASSUME NEW x, x.pc \in {"promote", "openCase", "export"}
  PROVE  Shape(x)
  BY DEF Shape, WorkspaceCall, DetectiveCall, UploadsCall, SponsorCall,
     DetectivePcs, UploadsPcs

LEMMA RiskTouches ==
  ASSUME Shapes, NEW c \in Calls, RiskNext(c)
  PROVE  Touches(RiskKinds, RiskPcs)
  <1> DEFINE K == RiskKinds
             Done == Touches(RiskKinds, RiskPcs)
  <1>1. DOMAIN call = Calls
    BY DEF Shapes
  <1>2. ASSUME NEW s, NEW scoped, WriteSource(s, scoped)
        PROVE  Done
    <2>1. PICK x : Transact(SourceRecord(s) :> x)
      BY <1>2, Zenon DEF WriteSource
    <2>2. Leaves(K) /\ UNCHANGED call
      BY <2>1, Leaves1, RiskNames DEF Transact
    <2> QED BY <2>2, TransactTouches
  <1>3. ASSUME NEW source,
               \/ PromoteSharedRisk(c, source)
               \/ PersistMonitoringRisk(c, source)
        PROVE  Done
    <2>1. PICK next : Read(c, next) /\ next.pc = "promote"
      BY <1>3 DEF PromoteSharedRisk, PersistMonitoringRisk
    <2> QED BY <1>1, <2>1, PlainShape, ReadTouches, RiskNames
  <1>4. ASSUME ExecutePersistenceTransaction(c)
        PROVE  Done
    <2> DEFINE key == call[c].key
    <2>1. PICK x, y, z :
            Commit(c, Signal(key) :> x @@ Receipt(key) :> y @@ RiskAudit(key) :> z)
      BY <1>4, Zenon DEF ExecutePersistenceTransaction
    <2> HIDE DEF key
    <2>2. Leaves(K) /\ Moved(c, Idle)
      BY <1>1, <2>1, Leaves3, CommitIs, RiskNames
    <2> QED BY <2>2, CommitTouches
  <1> HIDE DEF Done
  <1>5. Done
    BY <1>2, <1>3, <1>4 DEF RiskNext
  <1> QED BY <1>5 DEF Done

LEMMA CasesNames ==
  /\ CasesKinds = {"caseFile", "evidenceRef", "retention", "reviewTask",
                   "party", "relationship", "hold", "package", "recordEvent",
                   "caseEvent"}
  /\ \A s, i :
       /\ KindOf(CaseFile(s)) = "caseFile" /\ KindOf(EvidenceRef(s)) = "evidenceRef"
       /\ KindOf(RetentionRecord(s)) = "retention"
       /\ KindOf(ReviewTask(s, i)) = "reviewTask" /\ KindOf(Party(s, i)) = "party"
       /\ KindOf(Relationship(s, i)) = "relationship"
       /\ KindOf(LegalHold(s, i)) = "hold" /\ KindOf(Package(s, i)) = "package"
       /\ KindOf(RecordEvent(s, i)) = "recordEvent"
       /\ KindOf(CaseEvent(s, i)) = "caseEvent"
  BY DEF KindOf, Proper, CasesKinds, CaseFile, EvidenceRef, RetentionRecord, ReviewTask, Party,
     Relationship, LegalHold, Package, RecordEvent, CaseEvent

\* A record with its first event, and with a further one.
LEMMA RecordsOfKinds ==
  ASSUME NEW d, KindOf(d) \in CasesKinds, NEW type, NEW x
  PROVE  /\ OfKinds(Opened(d, type, x), CasesKinds)
         /\ \A request : OfKinds(Appended(d, request, type, x), CasesKinds)
  <1> SUFFICES ASSUME NEW request
               PROVE  /\ OfKinds(Opened(d, type, x), CasesKinds)
                      /\ OfKinds(Appended(d, request, type, x), CasesKinds)
    OBVIOUS
  <1>1. /\ \A r : KindOf(RecordEvent(d, r)) \in CasesKinds
        /\ \A s, e : KindOf(CaseEvent(s, e)) \in CasesKinds
    BY CasesNames
  <1>2. \A y, u, z, r :
          OfKinds(d :> y @@ RecordEvent(d, r) :> u
                  @@ CaseEvent(d[2], RecordEvent(d, r)) :> z, CasesKinds)
    <2> TAKE y, u, z, r
    <2>1. OfKinds(d :> y @@ RecordEvent(d, r) :> u, CasesKinds)
      BY <1>1, PutOfKinds, OverOfKinds
    <2> QED BY <1>1, <2>1, PutOfKinds, OverOfKinds
  <1>3. \E y, u, z, r : Opened(d, type, x) =
          d :> y @@ RecordEvent(d, r) :> u
          @@ CaseEvent(d[2], RecordEvent(d, r)) :> z
    BY Zenon DEF Opened
  <1>4. \E y, u, z, r : Appended(d, request, type, x) =
          d :> y @@ RecordEvent(d, r) :> u
          @@ CaseEvent(d[2], RecordEvent(d, r)) :> z
    BY Zenon DEF Appended
  <1> QED BY <1>2, <1>3, <1>4

\* And what is written of the case with them.
LEMMA CaseOfKinds ==
  ASSUME NEW s
  PROVE  /\ \A count : OfKinds(Held(s, count), CasesKinds)
         /\ \A retained : OfKinds(Projected(s, retained), CasesKinds)
  <1> SUFFICES ASSUME NEW x
               PROVE  OfKinds(Held(s, x), CasesKinds)
                      /\ OfKinds(Projected(s, x), CasesKinds)
    OBVIOUS
  <1>1. /\ \E y : Held(s, x) = CaseFile(s) :> y
        /\ \E y : Projected(s, x) = CaseFile(s) :> y
    BY Zenon DEF Held, Projected
  <1>2. \A y : OfKinds(CaseFile(s) :> y, CasesKinds)
    BY PutOfKinds, CasesNames
  <1> QED BY <1>1, <1>2

LEMMA CasesTouches ==
  ASSUME Shapes, NEW c \in Calls, CasesNext(c)
  PROVE  Touches(CasesKinds, CasesPcs)
  <1> DEFINE K == CasesKinds
             Done == Touches(CasesKinds, CasesPcs)
  <1>1. /\ DOMAIN call = Calls /\ CasesPcs = {"openCase", "export"}
        /\ \A k, d : d \in Kind(k) => KindOf(d) = k
    BY KindIs DEF Shapes, CasesPcs
  <1>2. ASSUME NEW w, OfKinds(w, K), Transact(w)
        PROVE  Done
    BY <1>2, LeavesOther, TransactTouches DEF Transact
  <1>3. ASSUME NEW source, ReadCaseSource(c, source)
        PROVE  Done
    <2>1. PICK next : Read(c, next) /\ next.pc = "openCase"
      BY <1>3 DEF ReadCaseSource
    <2> QED BY <1>1, <2>1, PlainShape, ReadTouches
  <1>4. ASSUME CreateCase(c)
        PROVE  Done
    <2> DEFINE s == call[c].source
    <2>1. PICK x, y, z :
            Commit(c, CaseFile(s) :> x @@ EvidenceRef(s) :> y
                      @@ CaseEvent(s, CaseFile(s)) :> z)
      BY <1>4, Zenon DEF CreateCase
    <2>2. /\ KindOf(CaseFile(s)) \in K /\ KindOf(EvidenceRef(s)) \in K
          /\ KindOf(CaseEvent(s, CaseFile(s))) \in K
      BY CasesNames
    <2> HIDE DEF s, K
    <2>3. /\ document' = CaseFile(s) :> x @@ EvidenceRef(s) :> y
                          @@ CaseEvent(s, CaseFile(s)) :> z @@ document
          /\ Moved(c, Idle)
      BY <1>1, <2>1, CommitIs
    <2>4. Leaves(K)
      BY <2>2, <2>3, Leaves3
    <2> QED BY <2>3, <2>4, CommitTouches DEF K
  <1>5. ASSUME NEW s, CloseCase(s)
        PROVE  Done
    <2>1. PICK x : Transact(CaseFile(s) :> x)
      BY <1>5, Zenon DEF CloseCase
    <2> QED BY <1>2, <2>1, PutOfKinds, CasesNames
  <1>6. ASSUME NEW s, NEW i, NEW u, NEW v,
               \/ CreateReviewTask(s, i, u) \/ CreateParty(s, i)
               \/ CreateRelationship(s, i, u, v)
        PROVE  Done
    <2>1. PICK d, type, x : KindOf(d) \in K /\ Transact(Opened(d, type, x))
      BY <1>6, CasesNames DEF CreateReviewTask, CreateParty, CreateRelationship
    <2> QED BY <1>2, <2>1, RecordsOfKinds
  <1>7. ASSUME NEW s, NEW i, StartLegalHold(s, i)
        PROVE  Done
    <2>1. PICK type, x, count :
            Transact(Opened(LegalHold(s, i), type, x) @@ Held(s, count))
      BY <1>7, Zenon DEF StartLegalHold
    <2>2. KindOf(LegalHold(s, i)) \in K
      BY CasesNames
    <2>3. /\ OfKinds(Opened(LegalHold(s, i), type, x), K)
          /\ OfKinds(Held(s, count), K)
      BY <2>2, RecordsOfKinds, CaseOfKinds
    <2> QED BY <1>2, <2>1, <2>3, OverOfKinds
  <1>8. ASSUME NEW s, NEW over, SetRetentionPolicy(s, over)
        PROVE  Done
    <2> DEFINE d == RetentionRecord(s)
    <2>1. KindOf(d) \in K
      BY CasesNames
    <2>2. \E retained, type, x, r :
            \/ Transact(Opened(d, type, x) @@ Projected(s, retained))
            \/ Transact(Appended(d, r, type, x) @@ Projected(s, retained))
      BY <1>8, Zenon DEF SetRetentionPolicy
    <2> HIDE DEF d
    <2>3. \A retained, type, x, r :
            /\ OfKinds(Opened(d, type, x) @@ Projected(s, retained), K)
            /\ OfKinds(Appended(d, r, type, x) @@ Projected(s, retained), K)
      BY <2>1, RecordsOfKinds, CaseOfKinds, OverOfKinds
    <2> QED BY <1>2, <2>2, <2>3
  <1>9. ASSUME NEW s, ExportReadiness(c, s)
        PROVE  Done
    <2>1. PICK next : Read(c, next) /\ next.pc = "export"
      BY <1>9 DEF ExportReadiness
    <2> QED BY <1>1, <2>1, PlainShape, ReadTouches
  <1>10. ASSUME NEW s, NEW request, AppendChainEvent(s, request)
         PROVE  Done
    <2>1. PICK type, x : Transact(Appended(EvidenceRef(s), request, type, x))
      BY <1>10, Zenon DEF AppendChainEvent
    <2>2. KindOf(EvidenceRef(s)) \in K
      BY CasesNames
    <2> QED BY <1>2, <2>1, <2>2, RecordsOfKinds
  <1>11. ASSUME NEW d, NEW request, NEW type, KindOf(d) \in K,
                \/ AppendReviewTaskEvent(d, request, type)
                \/ AppendCaseGraphEvent(d, request)
                \/ UpdateCasePartyProfile(d, request)
         PROVE  Done
    <2>1. PICK t, x : Transact(Appended(d, request, t, x))
      BY <1>11, Zenon
      DEF AppendReviewTaskEvent, AppendCaseGraphEvent, UpdateCasePartyProfile
    <2> QED BY <1>2, <1>11, <2>1, RecordsOfKinds
  <1>12. ASSUME NEW d, NEW request, NEW over, KindOf(d) \in K,
                \/ ReleaseLegalHold(d, request)
                \/ AssessDisposition(d, request, over)
         PROVE  Done
    <2>1. \E t, x, y : \/ Transact(Appended(d, request, t, x) @@ Held(d[2], y))
                       \/ Transact(Appended(d, request, t, x)
                                   @@ Projected(d[2], y))
      BY <1>12, Zenon DEF ReleaseLegalHold, AssessDisposition
    <2>2. \A t, x, y :
            /\ OfKinds(Appended(d, request, t, x) @@ Held(d[2], y), K)
            /\ OfKinds(Appended(d, request, t, x) @@ Projected(d[2], y), K)
      BY <1>12, RecordsOfKinds, CaseOfKinds, OverOfKinds
    <2> QED BY <1>2, <2>1, <2>2
  <1>13. ASSUME CreateCaseExportPackage(c)
         PROVE  Done
    <2> DEFINE s == call[c].source
               p == Package(s, Cardinality(RecordsOf(s, "package")) + 1)
    <2>1. PICK x, y : Commit(c, p :> x @@ CaseEvent(s, p) :> y)
      BY <1>13, Zenon DEF CreateCaseExportPackage
    <2>2. KindOf(p) \in K /\ KindOf(CaseEvent(s, p)) \in K
      BY CasesNames
    <2> HIDE DEF p
    <2>3. Leaves(K) /\ Moved(c, Idle)
      BY <1>1, <2>1, <2>2, Leaves2, CommitIs
    <2> QED BY <2>3, CommitTouches
  <1> HIDE DEF Done
  <1>14. ASSUME NEW s \in Cases,
               \/ CloseCase(s)
               \/ StartLegalHold(s, Another(s, "hold"))
               \/ \E assigned \in BOOLEAN :
                    CreateReviewTask(s, Another(s, "reviewTask"), assigned)
               \/ CreateParty(s, Another(s, "party"))
               \/ \E source, target :
                    CreateRelationship(s, Another(s, "relationship"),
                                       source, target)
               \/ \E over \in BOOLEAN : SetRetentionPolicy(s, over)
               \/ ExportReadiness(c, s)
               \/ \E request : AppendChainEvent(s, request)
        PROVE  Done
    BY <1>5, <1>6, <1>7, <1>8, <1>9, <1>10, <1>14, Zenon
  <1>15. ASSUME NEW d,
               \/ /\ d \in Kind("reviewTask")
                  /\ \E request, type : AppendReviewTaskEvent(d, request, type)
               \/ /\ d \in Kind("party") \cup Kind("relationship")
                  /\ \E request : \/ AppendCaseGraphEvent(d, request)
                                  \/ UpdateCasePartyProfile(d, request)
               \/ /\ d \in Kind("hold")
                  /\ \E request : ReleaseLegalHold(d, request)
               \/ /\ d \in Kind("retention")
                  /\ \E request, over : AssessDisposition(d, request, over)
        PROVE  Done
    <2>1. KindOf(d) \in K
      BY <1>1, <1>15, CasesNames
    <2> HIDE DEF K
    <2> QED BY <1>11, <1>12, <1>15, <2>1, Zenon
  <1>16. \/ \E source : ReadCaseSource(c, source)
         \/ CreateCase(c)
         \/ \E s \in Cases :
               \/ CloseCase(s)
               \/ StartLegalHold(s, Another(s, "hold"))
               \/ \E assigned \in BOOLEAN :
                    CreateReviewTask(s, Another(s, "reviewTask"), assigned)
               \/ CreateParty(s, Another(s, "party"))
               \/ \E source, target :
                    CreateRelationship(s, Another(s, "relationship"),
                                       source, target)
               \/ \E over \in BOOLEAN : SetRetentionPolicy(s, over)
               \/ ExportReadiness(c, s)
               \/ \E request : AppendChainEvent(s, request)
         \/ \E d :
               \/ /\ d \in Kind("reviewTask")
                  /\ \E request, type : AppendReviewTaskEvent(d, request, type)
               \/ /\ d \in Kind("party") \cup Kind("relationship")
                  /\ \E request : \/ AppendCaseGraphEvent(d, request)
                                  \/ UpdateCasePartyProfile(d, request)
               \/ /\ d \in Kind("hold")
                  /\ \E request : ReleaseLegalHold(d, request)
               \/ /\ d \in Kind("retention")
                  /\ \E request, over : AssessDisposition(d, request, over)
         \/ CreateCaseExportPackage(c)
    BY Zenon DEF CasesNext
  <1>17. Done
    BY <1>3, <1>4, <1>13, <1>14, <1>15, <1>16, Zenon
  <1> QED BY <1>17 DEF Done

LEMMA UploadsNames ==
  /\ UploadsKinds = {"uploadSession", "uploads", "staged", "permanent",
                     "evidenceObject", "caseEvent"}
  /\ UploadsPcs = {"upload", "reserve", "promote_object", "bind"}
  /\ \A s, u, i :
       /\ KindOf(UploadSession(s, i)) = "uploadSession"
       /\ KindOf(Uploads(s)) = "uploads" /\ KindOf(Staged(u)) = "staged"
       /\ KindOf(Permanent(u)) = "permanent"
       /\ KindOf(EvidenceObject(u)) = "evidenceObject"
       /\ KindOf(CaseEvent(s, i)) = "caseEvent"
  BY DEF KindOf, Proper, UploadsKinds, UploadsPcs, UploadSession, Uploads, Staged, Permanent,
     EvidenceObject, CaseEvent

\* A finalizing call goes on with the session and the generation it has.
LEMMA FinalizeTouches ==
  ASSUME Shapes, NEW c \in Calls, NEW p \in {"promote_object", "bind"},
         call[c].pc \in UploadsPcs \ {"upload"},
         NEW w, OfKinds(w, UploadsKinds),
         Step(c, w, [call[c] EXCEPT !.pc = p])
  PROVE  Touches(UploadsKinds, UploadsPcs)
  <1> DEFINE x == call[c]
             next == [pc |-> p, session |-> x.session,
                      generation |-> x.generation, expired |-> x.expired]
  <1>1. /\ KindOf(x.session) = "uploadSession"
        /\ x = [pc |-> x.pc, session |-> x.session,
                generation |-> x.generation, expired |-> x.expired]
    BY DEF Shapes, Shape, UploadsCall
  <1>2. [call[c] EXCEPT !.pc = p] = next
    <2> HIDE DEF x
    <2>1. [x EXCEPT !.pc = p] = next
      BY <1>1
    <2> QED BY <2>1 DEF x
  <1>3. document' = w @@ document /\ Moved(c, next)
    BY <1>2, StepIs DEF Shapes
  <1>4. Leaves(UploadsKinds)
    BY <1>3, LeavesOther
  <1>5. Shape(next) /\ next.pc \in UploadsPcs
    BY <1>1, UploadsNames
    DEF Shape, UploadsCall, WorkspaceCall, DetectiveCall, SponsorCall,
        DetectivePcs
  <1> HIDE DEF next
  <1> QED BY <1>3, <1>4, <1>5 DEF Touches

LEMMA UploadsTouches ==
  ASSUME Shapes, NEW c \in Calls, UploadsNext(c)
  PROVE  Touches(UploadsKinds, UploadsPcs)
  <1> DEFINE K == UploadsKinds
             Done == Touches(UploadsKinds, UploadsPcs)
             v == call[c].session
  <1>1. DOMAIN call = Calls /\ \A d : d \in Kind("uploadSession") =>
                                       KindOf(d) = "uploadSession"
    BY KindIs DEF Shapes
  <1>2. call[c].pc \in UploadsPcs => KindOf(v) = "uploadSession"
    BY DEF Shapes, Shape, UploadsCall
  <1>3. ASSUME NEW s, NEW r, NEW over, ReadUploadSession(c, s, r, over)
        PROVE  Done
    <2>1. PICK next : /\ Read(c, next) /\ next.pc = "upload"
                      /\ next.session = UploadSession(s, r)
      BY <1>3 DEF ReadUploadSession
    <2>2. Shape(next)
      BY <2>1, UploadsNames
      DEF Shape, UploadsCall, WorkspaceCall, DetectiveCall, SponsorCall,
          DetectivePcs
    <2> QED BY <1>1, <2>1, <2>2, ReadTouches, UploadsNames
  <1>4. ASSUME CreateUploadSession(c)
        PROVE  Done
    <2>1. PICK x, y : Commit(c, v :> x @@ Uploads(v[2]) :> y)
      BY <1>4, Zenon DEF CreateUploadSession
    <2>2. KindOf(v) \in K /\ KindOf(Uploads(v[2])) \in K
      BY <1>2, <1>4, UploadsNames DEF CreateUploadSession
    <2> HIDE DEF v, K
    <2>3. /\ document' = v :> x @@ Uploads(v[2]) :> y @@ document
          /\ Moved(c, Idle)
      BY <1>1, <2>1, CommitIs
    <2>4. Leaves(K)
      BY <2>2, <2>3, Leaves2
    <2> QED BY <2>3, <2>4, CommitTouches DEF K
  <1>5. ASSUME NEW u \in Kind("uploadSession"),
               StageObject(u) \/ RemoveStaged(u) \/ SessionExpires(u)
        PROVE  Done
    <2>1. PICK d, x : KindOf(d) \in K /\ Transact(d :> x)
      BY <1>1, <1>5, UploadsNames DEF StageObject, RemoveStaged, SessionExpires
    <2>2. Leaves(K) /\ UNCHANGED call
      BY <2>1, Leaves1 DEF Transact
    <2> QED BY <2>2, TransactTouches
  <1>6. ASSUME NEW u \in Kind("uploadSession"), ReadStagedObject(c, u)
        PROVE  Done
    <2>1. PICK g, e : Read(c, [pc |-> "reserve", session |-> u,
                               generation |-> g, expired |-> e])
      BY <1>6, Zenon DEF ReadStagedObject
    <2> DEFINE next == [pc |-> "reserve", session |-> u,
                        generation |-> g, expired |-> e]
    <2>2. Shape(next) /\ next.pc \in UploadsPcs
      BY <1>1, UploadsNames
      DEF Shape, UploadsCall, WorkspaceCall, DetectiveCall, SponsorCall,
          DetectivePcs
    <2>3. Read(c, next)
      BY <2>1
    <2> HIDE DEF next
    <2> QED BY <1>1, <2>2, <2>3, ReadTouches
  <1>7. ASSUME ReservePromotion(c)
        PROVE  Done
    <2>1. call[c].pc = "reserve"
      BY <1>7 DEF ReservePromotion
    <2>2. PICK w : /\ w = <<>> \/ \E x, y : w = v :> x @@ Uploads(v[2]) :> y
                   /\ Step(c, w, [call[c] EXCEPT !.pc = "promote_object"])
      BY <1>7, Zenon DEF ReservePromotion
    <2>3. KindOf(v) \in K /\ KindOf(Uploads(v[2])) \in K
      BY <1>2, <2>1, UploadsNames
    <2> HIDE DEF v
    <2>4. OfKinds(w, UploadsKinds)
      BY <2>2, <2>3, PutOfKinds, OverOfKinds, NoneOfKinds
    <2> QED BY <2>1, <2>2, <2>4, FinalizeTouches, UploadsNames
  <1>8. ASSUME PromoteObject(c)
        PROVE  Done
    <2>1. call[c].pc = "promote_object"
      BY <1>8 DEF PromoteObject
    <2>2. PICK w : /\ w = <<>> \/ \E x : w = Permanent(v) :> x
                   /\ Step(c, w, [call[c] EXCEPT !.pc = "bind"])
      BY <1>8, Zenon DEF PromoteObject
    <2> HIDE DEF v
    <2>3. OfKinds(w, UploadsKinds)
      BY <2>2, PutOfKinds, NoneOfKinds, UploadsNames
    <2> QED BY <2>1, <2>2, <2>3, FinalizeTouches, UploadsNames
  <1>9. ASSUME BindObject(c)
        PROVE  Done
    <2>1. PICK x, y, z, t :
            Commit(c, EvidenceObject(v) :> x
                      @@ CaseEvent(v[2], EvidenceObject(v)) :> y
                      @@ v :> z @@ Uploads(v[2]) :> t)
      BY <1>9, Zenon DEF BindObject
    <2>2. KindOf(v) = "uploadSession"
      BY <1>2, <1>9, UploadsNames DEF BindObject
    <2>3. /\ KindOf(EvidenceObject(v)) \in K
          /\ KindOf(CaseEvent(v[2], EvidenceObject(v))) \in K
          /\ KindOf(v) \in K /\ KindOf(Uploads(v[2])) \in K
      BY <2>2, UploadsNames
    <2> HIDE DEF v, K
    <2>4. /\ document' = EvidenceObject(v) :> x
                         @@ CaseEvent(v[2], EvidenceObject(v)) :> y
                         @@ v :> z @@ Uploads(v[2]) :> t @@ document
          /\ Moved(c, Idle)
      BY <1>1, <2>1, CommitIs
    <2>5. Leaves(K)
      BY <2>3, <2>4, Leaves4
    <2> QED BY <2>4, <2>5, CommitTouches DEF K
  <1> HIDE DEF Done
  <1>10. Done
    BY <1>3, <1>4, <1>5, <1>6, <1>7, <1>8, <1>9, Zenon DEF UploadsNext
  <1> QED BY <1>10 DEF Done

LEMMA SponsorNames ==
  /\ SponsorKinds = {"sponsor", "sponsorEvent", "logo"}
  /\ SponsorPcs = {"sponsor", "sponsorDone"}
  /\ \A i : /\ KindOf(Sponsor(i)) = "sponsor" /\ KindOf(Logo(i)) = "logo"
            /\ KindOf(SponsorEvent(i)) = "sponsorEvent"
  BY DEF KindOf, Proper, SponsorKinds, SponsorPcs, Sponsor, Logo, SponsorEvent

\* The logos that a call or a record names are logos: what an upsert goes on
\* with, and what it writes.
LEMMA SponsorShape ==
  ASSUME NEW x, x.pc \in SponsorPcs, SponsorCall(x)
  PROVE  Shape(x)
  BY SponsorNames
  DEF Shape, UploadsCall, WorkspaceCall, DetectiveCall, DetectivePcs, UploadsPcs

LEMMA SponsorFiles ==
  ASSUME Shapes, NEW c \in Calls, call[c].pc = "sponsor"
  PROVE  LET x == call[c] IN
         /\ KindOf(x.record) = "sponsor"
         /\ Before(x.record) = NoFile \/ KindOf(Before(x.record)) = "logo"
         /\ PathAfter(x) = NoFile \/ KindOf(PathAfter(x)) = "logo"
  <1> DEFINE x == call[c]
  <1>1. /\ KindOf(x.record) = "sponsor"
        /\ x.uploaded = NoFile \/ KindOf(x.uploaded) = "logo"
    BY DEF Shapes, Shape, SponsorCall
  <1>2. Exists(x.record) => x.record \in Kind("sponsor")
    BY <1>1 DEF KindOf, Exists, Kind, Shapes
  <1> HIDE DEF x
  <1> SUFFICES /\ Before(x.record) = NoFile \/ KindOf(Before(x.record)) = "logo"
               /\ PathAfter(x) = NoFile \/ KindOf(PathAfter(x)) = "logo"
    BY <1>1 DEF x
  <1> QED BY <1>1, <1>2 DEF Shapes, Before, PathAfter

LEMMA SponsorTouches ==
  ASSUME Shapes, NEW c \in Calls, SponsorNext(c)
  PROVE  Touches(SponsorKinds, SponsorPcs)
  <1> DEFINE K == SponsorKinds
             Done == Touches(SponsorKinds, SponsorPcs)
  <1>1. DOMAIN call = Calls /\ SponsorCall(call[c])
    BY DEF Shapes, Shape
  <1>2. ASSUME NEW i, UploadSponsorLogo(c, Sponsor(i))
        PROVE  Done
    <2>1. PICK file, x, next :
            /\ KindOf(file) = "logo" /\ Step(c, file :> x, next)
            /\ next.pc = "sponsor" /\ next.record = Sponsor(i)
            /\ next.uploaded = file
      BY <1>2, SponsorNames DEF UploadSponsorLogo, Claim, Step
    <2>2. Shape(next)
      BY <2>1, SponsorShape, SponsorNames DEF SponsorCall
    <2>3. Leaves(K) /\ Moved(c, next)
      BY <1>1, <2>1, StepIs, Leaves1, SponsorNames
    <2> QED BY <1>1, <2>1, <2>2, <2>3, StepTouches, SponsorNames
  <1>3. ASSUME NEW i, NEW url, NoUpload(c, Sponsor(i), url)
        PROVE  Done
    <2>1. PICK next : /\ Read(c, next) /\ next.pc = "sponsor"
                      /\ next.record = Sponsor(i) /\ next.uploaded = NoFile
      BY <1>3 DEF NoUpload
    <2>2. Shape(next)
      BY <2>1, SponsorShape, SponsorNames DEF SponsorCall
    <2> QED BY <1>1, <2>1, <2>2, ReadTouches, SponsorNames
  <1>4. ASSUME NEW status, WriteSponsor(c, status)
        PROVE  Done
    <2> DEFINE r == call[c].record
    <2>1. PICK x, y, e, next :
            /\ KindOf(e) = "sponsorEvent" /\ Step(c, r :> x @@ e :> y, next)
            /\ next.pc = "sponsorDone" /\ next.before = Before(r)
      BY <1>4, SponsorNames DEF WriteSponsor
    <2>2. /\ KindOf(r) = "sponsor"
          /\ Before(r) = NoFile \/ KindOf(Before(r)) = "logo"
      BY <1>4, SponsorFiles DEF WriteSponsor
    <2> HIDE DEF r
    <2>3. Shape(next)
      BY <2>1, <2>2, SponsorShape, SponsorNames DEF SponsorCall
    <2>4. Leaves(K) /\ Moved(c, next)
      BY <1>1, <2>1, <2>2, StepIs, Leaves2, SponsorNames
    <2> QED BY <1>1, <2>1, <2>3, <2>4, StepTouches, SponsorNames
  <1>5. ASSUME RefuseSponsor(c) \/ DeleteReplacedLogo(c)
        PROVE  Done
    <2>1. PICK w : /\ w = <<>> \/ \E d, x : KindOf(d) = "logo" /\ w = d :> x
                   /\ Commit(c, w)
      BY <1>1, <1>5
      DEF RefuseSponsor, DeleteReplacedLogo, Replaced, SponsorCall
    <2>2. OfKinds(w, SponsorKinds)
      BY <2>1, PutOfKinds, NoneOfKinds, SponsorNames
    <2>3. Leaves(K) /\ Moved(c, Idle)
      BY <1>1, <2>1, <2>2, CommitIs, LeavesOther
    <2> QED BY <2>3, CommitTouches
  <1> HIDE DEF Done
  <1>6. Done
    BY <1>2, <1>3, <1>4, <1>5, Zenon DEF SponsorNext
  <1> QED BY <1>6 DEF Done

\* The components below have no open calls: each handler is one transaction.
LEMMA OneTransaction ==
  ASSUME NEW kinds, NEW w, OfKinds(w, kinds), Transact(w)
  PROVE  Touches(kinds, {})
  BY LeavesOther, TransactTouches DEF Transact

LEMMA LaboratoriesTouches ==
  ASSUME LaboratoriesNext
  PROVE  Touches(LaboratoriesKinds, {})
  <1> DEFINE K == LaboratoriesKinds
  <1>0. /\ \A i : KindOf(Laboratory(i)) = "laboratory"
        /\ \A i : KindOf(Accreditation(i)) = "accreditation"
    BY DEF KindOf, Proper, Laboratory, Accreditation
  <1> DEFINE Mutates(e) ==
               \E callable, k, version, x, type :
                 Mutation(callable, k, e, version, x, type)
  <1>1. ASSUME \/ \E k, i, registration : RegisterLaboratory(k, i, registration)
               \/ \E k, i, version, target :
                    ChangeLaboratoryStatus(k, i, version, target)
        PROVE  \E i : Mutates(Laboratory(i))
    BY <1>1, Zenon DEF RegisterLaboratory, ChangeLaboratoryStatus
  <1>2. ASSUME \/ \E k, i, l, certificate :
                    SubmitAccreditation(k, i, l, certificate)
               \/ \E k, i, version, decision :
                    ReviewAccreditation(k, i, version, decision)
        PROVE  \E i : Mutates(Accreditation(i))
    BY <1>2, Zenon DEF SubmitAccreditation, ReviewAccreditation
  <1>3. PICK e : KindOf(e) \in {"laboratory", "accreditation"} /\ Mutates(e)
    <2> HIDE DEF Mutates
    <2>1. \E i : Mutates(Laboratory(i)) \/ Mutates(Accreditation(i))
      BY <1>1, <1>2, Zenon DEF LaboratoriesNext
    <2> QED BY <1>0, <2>1
  <1>4. PICK callable, k, version, x, type :
          Mutation(callable, k, e, version, x, type)
    BY <1>3
  <1>5. PICK y, z, u : Transact(e :> y @@ RegistryAudit(e, version) :> z
                                @@ Key(callable, k) :> u)
    BY <1>4, Zenon DEF Mutation
  <1>6. /\ KindOf(e) \in K /\ KindOf(RegistryAudit(e, version)) \in K
        /\ KindOf(Key(callable, k)) \in K
    BY <1>3 DEF KindOf, Proper, LaboratoriesKinds, RegistryAudit, Key
  <1> HIDE DEF K
  <1>7. OfKinds(e :> y @@ RegistryAudit(e, version) :> z
                @@ Key(callable, k) :> u, K)
    BY <1>6, PutOfKinds, OverOfKinds
  <1> QED BY <1>5, <1>7, OneTransaction DEF K

LEMMA TraceabilityNames ==
  /\ TraceabilityKinds = {"productCode", "scan", "traceabilityCase"}
  /\ \A i : /\ KindOf(ProductCode(i)) = "productCode" /\ KindOf(Scan(i)) = "scan"
            /\ KindOf(TraceabilityCase(i)) = "traceabilityCase"
  BY DEF KindOf, Proper, TraceabilityKinds, ProductCode, Scan, TraceabilityCase

LEMMA TraceabilityTouches ==
  ASSUME Shapes, TraceabilityNext
  PROVE  Touches(TraceabilityKinds, {})
  <1> DEFINE K == TraceabilityKinds
  <1>1. ASSUME NEW a, NEW x, KindOf(a) \in K, Transact(a :> x)
        PROVE  Touches(K, {})
    BY <1>1, PutOfKinds, OneTransaction
  <1>2. ASSUME NEW a, NEW x, NEW b, NEW y, KindOf(a) \in K, KindOf(b) \in K,
               Transact(a :> x @@ b :> y)
        PROVE  Touches(K, {})
    BY <1>2, PutOfKinds, OverOfKinds, OneTransaction
  <1>3. \A d : d \in Kind("productCode") \/ d \in Kind("scan") => KindOf(d) \in K
    BY KindIs, TraceabilityNames
  <1>4. ASSUME IssueProductCode(NextOf("productCode")) \/ VerifyUnknownCode
        PROVE  Touches(K, {})
    <2>1. PICK a, x : KindOf(a) \in K /\ Transact(a :> x)
      BY <1>4, TraceabilityNames DEF IssueProductCode, VerifyUnknownCode
    <2> QED BY <1>1, <2>1
  <1>5. ASSUME NEW d \in Kind("productCode"),
               \/ \E status : SetCodeStatus(d, status)
               \/ \E platform, source, rapid :
                    VerifyProductCode(d, platform, source, rapid)
        PROVE  Touches(K, {})
    <2>1. \/ \E x : Transact(d :> x)
          \/ \E x, b, y : KindOf(b) = "scan" /\ Transact(d :> x @@ b :> y)
      BY <1>5, TraceabilityNames DEF SetCodeStatus, VerifyProductCode
    <2> QED BY <1>1, <1>2, <1>3, <2>1, TraceabilityNames
  <1>6. ASSUME NEW d \in Kind("scan"),
               \/ \E review : ReviewSuspiciousVerificationScan(d, review)
               \/ CreateTraceabilityCaseFromScan(d)
        PROVE  Touches(K, {})
    <2>1. \/ \E x : Transact(d :> x)
          \/ \E x, b, y : /\ KindOf(b) = "traceabilityCase"
                          /\ Transact(b :> y @@ d :> x)
      BY <1>6, TraceabilityNames
      DEF ReviewSuspiciousVerificationScan, CreateTraceabilityCaseFromScan,
          Reviewed
    <2> QED BY <1>1, <1>2, <1>3, <2>1, TraceabilityNames
  <1> HIDE DEF K
  <1>7. \/ IssueProductCode(NextOf("productCode")) \/ VerifyUnknownCode
        \/ \E d \in Kind("productCode") :
             \/ \E status : SetCodeStatus(d, status)
             \/ \E platform, source, rapid :
                  VerifyProductCode(d, platform, source, rapid)
        \/ \E d \in Kind("scan") :
             \/ \E review : ReviewSuspiciousVerificationScan(d, review)
             \/ CreateTraceabilityCaseFromScan(d)
    BY Zenon DEF TraceabilityNext
  <1>8. Touches(K, {})
    BY <1>4, <1>5, <1>6, <1>7, Zenon
  <1> QED BY <1>8 DEF K

LEMMA TwinsNames ==
  /\ TwinsKinds = {"twinReport", "comparison", "reportDeletion", "twinRecord"}
  /\ \A i : /\ KindOf(Report(i)) = "twinReport" /\ KindOf(Comparison(i)) = "comparison"
            /\ KindOf(Deletion(i)) = "reportDeletion"
            /\ KindOf(TwinRecord(i)) = "twinRecord"
  BY DEF KindOf, Proper, TwinsKinds, Report, Comparison, Deletion, TwinRecord

LEMMA TwinsTouches ==
  ASSUME Shapes, CounterfeitTwinsNext
  PROVE  Touches(TwinsKinds, {})
  <1> DEFINE K == TwinsKinds
  <1>1. ASSUME NEW a, NEW x, KindOf(a) \in K, Transact(a :> x)
        PROVE  Touches(K, {})
    BY <1>1, PutOfKinds, OneTransaction
  <1>2. ASSUME NEW a, NEW x, NEW b, NEW y, KindOf(a) \in K, KindOf(b) \in K,
               Transact(a :> x @@ b :> y)
        PROVE  Touches(K, {})
    BY <1>2, PutOfKinds, OverOfKinds, OneTransaction
  <1>3. \A d : d \in Kind("twinReport") \/ d \in Kind("twinRecord")
                 => KindOf(d) \in K
    BY KindIs, TwinsNames
  <1>4. ASSUME \/ \E images : SubmitCounterfeitTwinReport(images)
               \/ \E code, status : CreateCounterfeitTwinRecord(code, status)
        PROVE  Touches(K, {})
    <2>1. PICK a, x : KindOf(a) \in K /\ Transact(a :> x)
      BY <1>4, TwinsNames
      DEF SubmitCounterfeitTwinReport, CreateCounterfeitTwinRecord, NewReport
    <2> QED BY <1>1, <2>1
  <1>5. ASSUME NEW d \in Kind("twinRecord"), NEW status,
               UpdateCounterfeitTwinRecord(d, status)
        PROVE  Touches(K, {})
    <2>1. PICK x : Transact(d :> x)
      BY <1>5, Zenon DEF UpdateCounterfeitTwinRecord
    <2> QED BY <1>1, <1>3, <2>1
  <1>6. ASSUME NEW r \in Kind("twinReport"), NEW decision, NEW approved,
               ReviewCounterfeitTwinReport(r, decision, approved)
        PROVE  Touches(K, {})
    <2>1. \/ \E x : Transact(r :> x)
          \/ \E x, b, y : KindOf(b) = "comparison" /\ Transact(b :> y @@ r :> x)
      BY <1>6, TwinsNames DEF ReviewCounterfeitTwinReport
    <2> QED BY <1>2, <1>1, <1>3, <2>1, TwinsNames
  <1>7. ASSUME NEW r \in Kind("twinReport"), DeleteCounterfeitTwinReport(r)
        PROVE  Touches(K, {})
    <2>1. PICK b, y : /\ KindOf(b) = "reportDeletion"
                      /\ TransactDeleting(r, b :> y)
      BY <1>7, TwinsNames DEF DeleteCounterfeitTwinReport
    <2>2. KindOf(r) \in K /\ KindOf(b) \in K
      BY <1>3, <2>1, TwinsNames
    <2> HIDE DEF K
    <2>3. Leaves(K) /\ UNCHANGED call
      BY <2>1, <2>2 DEF TransactDeleting, Leaves, Same, @@, :>
    <2> QED BY <2>3, TransactTouches
  <1> HIDE DEF K
  <1>8. Touches(K, {})
    BY <1>4, <1>5, <1>6, <1>7, Zenon DEF CounterfeitTwinsNext
  <1> QED BY <1>8 DEF K

LEMMA PriorityNames ==
  /\ PriorityKinds = {"creation", "creationVersion", "registryOwner",
                      "ownerNumber"}
  /\ \A i : /\ KindOf(Creation(i)) = "creation"
            /\ KindOf(CreationVersion(i)) = "creationVersion"
            /\ KindOf(OwnerIdentity(i)) = "registryOwner"
            /\ KindOf(OwnerNumber(i)) = "ownerNumber"
  BY DEF KindOf, Proper, PriorityKinds, Creation, CreationVersion, OwnerIdentity, OwnerNumber

LEMMA PriorityTouches ==
  ASSUME Shapes, IpPriorityNext
  PROVE  Touches(PriorityKinds, {})
  <1> DEFINE K == PriorityKinds
  <1>1. ASSUME NEW a, NEW x, KindOf(a) \in K, Transact(a :> x)
        PROVE  Touches(K, {})
    BY <1>1, PutOfKinds, OneTransaction
  <1>2. ASSUME NEW a, NEW x, NEW b, NEW y, KindOf(a) \in K, KindOf(b) \in K,
               Transact(a :> x @@ b :> y)
        PROVE  Touches(K, {})
    BY <1>2, PutOfKinds, OverOfKinds, OneTransaction
  <1>3. \A d : d \in Kind("creation") \/ d \in Kind("creationVersion")
                 => KindOf(d) \in K
    BY KindIs, PriorityNames
  <1>4. ASSUME \/ \E code, content :
                    CreateIpCreationPriorityDraft(code, content)
               \/ \E u, n : EnsureIpCreationRegistryOwnerIdentity(u, n)
        PROVE  Touches(K, {})
    <2>1. PICK a, x, b, y : KindOf(a) \in K /\ KindOf(b) \in K
                            /\ Transact(a :> x @@ b :> y)
      BY <1>4, PriorityNames
      DEF CreateIpCreationPriorityDraft, EnsureIpCreationRegistryOwnerIdentity
    <2> QED BY <1>2, <2>1
  <1>5. ASSUME NEW d \in Kind("creation"), NEW v \in Kind("creationVersion"),
               \/ \E content : UpdateIpCreationPriorityDraft(d, v, content)
               \/ SealIpCreationPriorityRecord(d, v)
        PROVE  Touches(K, {})
    <2>1. \/ \E x : Transact(v :> x)
          \/ \E x, y : Transact(v :> x @@ d :> y)
      BY <1>5, Zenon
      DEF UpdateIpCreationPriorityDraft, SealIpCreationPriorityRecord
    <2> QED BY <1>1, <1>2, <1>3, <2>1
  <1>6. ASSUME NEW d \in Kind("creation"),
               \/ \E content : CreateIpCreationPriorityVersion(d, content)
               \/ ArchiveCreation(d)
        PROVE  Touches(K, {})
    <2>1. \/ \E x : Transact(d :> x)
          \/ \E x, b, y : /\ KindOf(b) = "creationVersion"
                          /\ Transact(b :> y @@ d :> x)
      BY <1>6, PriorityNames DEF CreateIpCreationPriorityVersion, ArchiveCreation
    <2> QED BY <1>2, <1>1, <1>3, <2>1, PriorityNames
  <1> HIDE DEF K
  <1>7. Touches(K, {})
    BY <1>4, <1>5, <1>6, Zenon DEF IpPriorityNext
  <1> QED BY <1>7 DEF K

LEMMA SupplyTouches ==
  ASSUME Shapes, SupplySecurityNext
  PROVE  Touches(SupplyKinds, {})
  <1> DEFINE K == SupplyKinds
  <1>1. /\ \A i : /\ KindOf(Partner(i)) \in K /\ KindOf(Facility(i)) \in K
                  /\ KindOf(ProtectionControl(i)) \in K /\ KindOf(ProductionAsset(i)) \in K
        /\ \A d \in UNION {Kind(k) : k \in {"partner", "facility", "control"}} :
             KindOf(d) \in K
        /\ \A d \in Kind("control") \cup Kind("asset") : KindOf(d) \in K
    BY KindIs
    DEF KindOf, Proper, SupplyKinds, Partner, Facility, ProtectionControl,
        ProductionAsset
  <1> HIDE DEF K
  <1>2. ASSUME NEW d, KindOf(d) \in K,
               \/ \E status : Withdraw(d, status)
               \/ \E status, failed, corrected, partner, facility :
                    UpdateSupplyProtectionControl(d, status, failed, corrected,
                                                  partner, facility)
               \/ \E partner, facility :
                    UpdateSupplyProductionAsset(d, partner, facility)
        PROVE  \E a, x : KindOf(a) \in K /\ Transact(a :> x)
    BY <1>2, Zenon
    DEF Withdraw, UpdateSupplyProtectionControl, UpdateSupplyProductionAsset
  <1>3. ASSUME \/ \E partner : CreateTarget(partner)
               \/ \E i, partner, facility :
                    \/ CreateSupplyProtectionControl(i, partner, facility)
                    \/ CreateSupplyProductionAsset(i, partner, facility)
        PROVE  \E a, x : KindOf(a) \in K /\ Transact(a :> x)
    BY <1>1, <1>3
    DEF CreateTarget, CreateSupplyProtectionControl, CreateSupplyProductionAsset
  <1> DEFINE Updates(d) ==
               \/ \E status : Withdraw(d, status)
               \/ \E status, failed, corrected, partner, facility :
                    UpdateSupplyProtectionControl(d, status, failed, corrected,
                                                  partner, facility)
               \/ \E partner, facility :
                    UpdateSupplyProductionAsset(d, partner, facility)
             Creates ==
               \/ \E partner : CreateTarget(partner)
               \/ \E i, partner, facility :
                    \/ CreateSupplyProtectionControl(i, partner, facility)
                    \/ CreateSupplyProductionAsset(i, partner, facility)
  <1>4. \/ Creates
        \/ \E d : /\ \/ d \in UNION {Kind(k) :
                                    k \in {"partner", "facility", "control"}}
                      \/ d \in Kind("control") \/ d \in Kind("asset")
                   /\ Updates(d)
    <2>1. CASE \E d \in UNION {Kind(k) : k \in {"partner", "facility", "control"}} :
                 Withdraw(d, "archived")
      BY <2>1, Zenon
    <2>2. CASE \E d \in Kind("asset"), status \in {"archived", "destroyed"} :
                 InUse(d) /\ Withdraw(d, status)
      BY <2>2, Zenon
    <2>3. CASE \E partner \in Kind("partner") \cup {NoTarget} :
                 CreateTarget(partner)
      BY <2>3, Zenon
    <2>4. CASE \E partner \in Partners, facility \in Facilities :
                 \/ \E i \in Chosen("control") :
                      CreateSupplyProtectionControl(i, partner, facility)
                 \/ \E d \in Kind("control"), failed, corrected \in BOOLEAN,
                       status \in {"planned", "cancelled"} :
                      UpdateSupplyProtectionControl(d, status, failed,
                                                    corrected, partner, facility)
                 \/ \E i \in Chosen("asset") :
                      CreateSupplyProductionAsset(i, partner, facility)
                 \/ \E d \in Kind("asset") :
                      UpdateSupplyProductionAsset(d, partner, facility)
      BY <2>4, Zenon
    <2> HIDE DEF Creates, Updates
    <2> QED BY <2>1, <2>2, <2>3, <2>4, Zenon DEF SupplySecurityNext
  <1>5. PICK a, x : KindOf(a) \in K /\ Transact(a :> x)
    <2>1. CASE Creates
      BY <1>3, <2>1
    <2>2. ASSUME NEW d, KindOf(d) \in K, Updates(d)
          PROVE  \E a, x : KindOf(a) \in K /\ Transact(a :> x)
      BY <1>2, <2>2
    <2> HIDE DEF Creates, Updates
    <2>3. Creates \/ \E d : KindOf(d) \in K /\ Updates(d)
      BY <1>1, <1>4, Zenon
    <2> QED BY <2>1, <2>2, <2>3, Zenon
  <1> QED BY <1>5, PutOfKinds, OneTransaction DEF K

LEMMA BrandTouches ==
  ASSUME Shapes, BrandOnboardingNext
  PROVE  Touches(BrandKinds, {})
  <1> DEFINE K == BrandKinds
  <1>1. /\ \A i, j :
             /\ KindOf(Application(i)) \in K /\ KindOf(Brand(i)) \in K
             /\ KindOf(SubscriptionRequest(i, j)) \in K /\ KindOf(EntryAttempts(i)) \in K
        /\ \A u : \A d \in TenantDocuments(u) : KindOf(d) \in K
        /\ \A d \in Kind("brandApplication") : KindOf(d) \in K
    BY KindIs
    DEF KindOf, Proper, BrandKinds, Application, Brand, SubscriptionRequest,
        EntryAttempts, TenantDocuments, Tenant, TenantBrand, Membership,
        TenantReceipt, TenantAudit
  <1> HIDE DEF K
  <1>2. ASSUME NEW u,
               \/ Apply(u)
               \/ \E r, product : CreateSubscriptionRequest(u, r, product)
               \/ \E codeMatches : VerifyAdminEntryGate(u, codeMatches)
               \/ LockEnds(u)
        PROVE  \E w : OfKinds(w, K) /\ Transact(w)
    <2>1. PICK a, x : KindOf(a) \in K /\ Transact(a :> x)
      BY <1>1, <1>2, Zenon
      DEF Apply, CreateSubscriptionRequest, VerifyAdminEntryGate, LockEnds
    <2> QED BY <2>1, PutOfKinds
  <1>3. ASSUME NEW d \in Kind("brandApplication"), NEW decision,
               ReviewBrandApplication(d, decision)
        PROVE  \E w : OfKinds(w, K) /\ Transact(w)
    <2>1. PICK x, w : /\ w = <<>> \/ \E u, y : w = Brand(u) :> y
                      /\ Transact(d :> x @@ w)
      BY <1>3 DEF ReviewBrandApplication
    <2>2. OfKinds(w, K) /\ OfKinds(d :> x, K)
      BY <1>1, <2>1, PutOfKinds, NoneOfKinds
    <2> QED BY <2>1, <2>2, OverOfKinds
  <1>4. ASSUME NEW u, ProvisionInternalTenant(u)
        PROVE  \E w : OfKinds(w, K) /\ Transact(w)
    <2> DEFINE w == [d \in TenantDocuments(u) |-> [creator |-> u]]
    <2>1. OfKinds(w, K)
      BY <1>1 DEF OfKinds
    <2>2. Transact(w)
      BY <1>4 DEF ProvisionInternalTenant
    <2> QED BY <2>1, <2>2
  <1>5. \E w : OfKinds(w, K) /\ Transact(w)
    BY <1>2, <1>3, <1>4, Zenon DEF BrandOnboardingNext
  <1> QED BY <1>5, OneTransaction DEF K

-----------------------------------------------------------------------------
(* The calls of the system have their shapes, and a step is one of its     *)
(* component or leaves the component's documents and calls alone.          *)

LEMMA ShapesKept ==
  ASSUME Shapes, NEW kinds, NEW pcs, Touches(kinds, pcs),
         "sponsor" \notin kinds, "none" \notin kinds
  PROVE  Shapes'
  <1>0. \A d \in DOMAIN document' : Proper(d)
    BY DEF Shapes, Touches, Leaves, Same, KindOf
  <1>1. DOMAIN call' = Calls /\ \A c \in Calls : Shape(call'[c])
    BY DEF Shapes, Touches, Moved
  <1>2. ASSUME NEW d \in Kind("sponsor")'
        PROVE  document'[d].path = NoFile \/ KindOf(document'[d].path) = "logo"
    <2>1. KindOf(d) = "sponsor"
      BY <1>0 DEF KindOf, Kind
    <2>2. d \in Kind("sponsor") /\ document'[d] = document[d]
      BY <2>1 DEF Touches, Leaves, Same, Kind
    <2> QED BY <2>2 DEF Shapes
  <1> QED BY <1>0, <1>1, <1>2 DEF Shapes, NoFile

\* The records of sponsors that an upsert leaves.
LEMMA SponsorRecords ==
  ASSUME Shapes, NEW c \in Calls, SponsorNext(c), \A d \in DOMAIN document' : Proper(d)
  PROVE  \A d \in Kind("sponsor")' :
           document'[d].path = NoFile \/ KindOf(document'[d].path) = "logo"
  <1>1. DOMAIN call = Calls /\ SponsorCall(call[c])
    BY DEF Shapes, Shape
  <1>2. ASSUME NEW status, WriteSponsor(c, status)
        PROVE  \A d \in Kind("sponsor")' :
                 document'[d].path = NoFile \/ KindOf(document'[d].path) = "logo"
    <2> DEFINE r == call[c].record
    <2>1. PICK u, e, y, next :
            /\ KindOf(e) = "sponsorEvent"
            /\ Step(c, r :> [status |-> status, url |-> u,
                             path |-> PathAfter(call[c])] @@ e :> y, next)
      BY <1>2, SponsorNames DEF WriteSponsor
    <2>2. KindOf(r) = "sponsor"
      BY <1>2, SponsorFiles DEF WriteSponsor
    <2>3. PathAfter(call[c]) = NoFile \/ KindOf(PathAfter(call[c])) = "logo"
      BY <1>2, SponsorFiles DEF WriteSponsor
    <2> HIDE DEF r
    <2>4. /\ document'[r].path = PathAfter(call[c])
          /\ \A d : d # r /\ d # e => Same(d)
      BY <1>1, <2>1, <2>2, StepIs, Write2
    <2> TAKE d \in Kind("sponsor")'
    <2>5. KindOf(d) = "sponsor"
      BY DEF KindOf, Kind
    <2>6. d # r => d \in Kind("sponsor") /\ document'[d] = document[d]
      BY <2>1, <2>4, <2>5 DEF Kind, Same
    <2> QED BY <2>3, <2>4, <2>6 DEF Shapes
  <1>3. ASSUME NEW kinds, "sponsor" \notin kinds, Leaves(kinds)
        PROVE  \A d \in Kind("sponsor")' :
                 document'[d].path = NoFile \/ KindOf(document'[d].path) = "logo"
    <2> TAKE d \in Kind("sponsor")'
    <2>1. KindOf(d) = "sponsor"
      BY DEF KindOf, Kind
    <2>2. d \in Kind("sponsor") /\ document'[d] = document[d]
      BY <1>3, <2>1 DEF Leaves, Same, Kind
    <2> QED BY <2>2 DEF Shapes
  <1>4. ASSUME NEW i, UploadSponsorLogo(c, Sponsor(i))
        PROVE  Leaves({"logo"})
    <2>1. PICK file, x : KindOf(file) = "logo" /\ document' = file :> x @@ document
      BY <1>4, SponsorNames DEF UploadSponsorLogo, Claim
    <2> QED BY <2>1, Leaves1
  <1>5. ASSUME NEW i, NEW url, NoUpload(c, Sponsor(i), url)
        PROVE  Leaves({"logo"})
    <2>1. document' = <<>> @@ document
      BY <1>5 DEF NoUpload, Read, Claim
    <2> QED BY <2>1, WriteNone DEF Leaves
  <1>6. ASSUME RefuseSponsor(c) \/ DeleteReplacedLogo(c)
        PROVE  Leaves({"logo"})
    <2>1. PICK w : /\ w = <<>> \/ \E d, x : KindOf(d) = "logo" /\ w = d :> x
                   /\ Commit(c, w)
      BY <1>1, <1>6
      DEF RefuseSponsor, DeleteReplacedLogo, Replaced, SponsorCall
    <2>2. OfKinds(w, {"logo"})
      BY <2>1, PutOfKinds, NoneOfKinds
    <2> QED BY <1>1, <2>1, <2>2, CommitIs, LeavesOther
  <1>7. \/ \E status : WriteSponsor(c, status)
        \/ Leaves({"logo"})
    BY <1>4, <1>5, <1>6, Zenon DEF SponsorNext
  <1> QED BY <1>2, <1>3, <1>7

\* Every step is one of a component, which touches what is its own.
LEMMA Stepped ==
  ASSUME Shapes, [PlatformNext]_documentVars
  PROVE  \/ \E c \in Calls :
              \/ WorkspaceNext(c) /\ Touches(WorkspaceKinds, WorkspacePcs)
              \/ DetectiveNext(c) /\ Touches(DetectiveKinds, DetectivePcs)
              \/ RiskNext(c) /\ Touches(RiskKinds, RiskPcs)
              \/ CasesNext(c) /\ Touches(CasesKinds, CasesPcs)
              \/ UploadsNext(c) /\ Touches(UploadsKinds, UploadsPcs)
              \/ SponsorNext(c) /\ Touches(SponsorKinds, SponsorPcs)
         \/ LaboratoriesNext /\ Touches(LaboratoriesKinds, {})
         \/ TraceabilityNext /\ Touches(TraceabilityKinds, {})
         \/ CounterfeitTwinsNext /\ Touches(TwinsKinds, {})
         \/ IpPriorityNext /\ Touches(PriorityKinds, {})
         \/ SupplySecurityNext /\ Touches(SupplyKinds, {})
         \/ BrandOnboardingNext /\ Touches(BrandKinds, {})
         \/ Touches({}, {})
  <1>1. ASSUME NEW c \in Calls, GiveUp(c)
        PROVE  Touches({}, {})
    BY <1>1, IdleShape DEF GiveUp, Touches, Leaves, Same, Moved, Shapes
  <1>2. CASE UNCHANGED documentVars
    BY <1>2 DEF documentVars, Touches, Leaves, Same
  <1>3. ASSUME PlatformNext
        PROVE  \/ \E c \in Calls :
                    \/ WorkspaceNext(c) \/ DetectiveNext(c) \/ RiskNext(c)
                    \/ CasesNext(c) \/ UploadsNext(c) \/ SponsorNext(c)
                    \/ GiveUp(c)
               \/ LaboratoriesNext \/ TraceabilityNext \/ CounterfeitTwinsNext
               \/ IpPriorityNext \/ SupplySecurityNext \/ BrandOnboardingNext
    BY <1>3, Zenon DEF PlatformNext
  <1> QED
    BY <1>1, <1>2, <1>3, WorkspaceTouches, DetectiveTouches, RiskTouches,
       CasesTouches, UploadsTouches, SponsorTouches, LaboratoriesTouches,
       TraceabilityTouches, TwinsTouches, PriorityTouches, SupplyTouches,
       BrandTouches, Zenon

LEMMA ShapesStep ==
  ASSUME Shapes, [PlatformNext]_documentVars
  PROVE  Shapes'
  <1>1. \/ \E kinds, pcs : /\ Touches(kinds, pcs)
                           /\ "sponsor" \notin kinds /\ "none" \notin kinds
        \/ \E c \in Calls : SponsorNext(c) /\ Touches(SponsorKinds, SponsorPcs)
    <2>1. \A kinds \in {WorkspaceKinds, DetectiveKinds, RiskKinds, CasesKinds,
                        UploadsKinds, LaboratoriesKinds, TraceabilityKinds,
                        TwinsKinds, PriorityKinds, SupplyKinds, BrandKinds, {}} :
            "sponsor" \notin kinds /\ "none" \notin kinds
      BY DEF WorkspaceKinds, DetectiveKinds, RiskKinds, CasesKinds, UploadsKinds,
         LaboratoriesKinds, TraceabilityKinds, TwinsKinds, PriorityKinds,
         SupplyKinds, BrandKinds
    <2> QED BY <2>1, Stepped
  <1>2. ASSUME NEW c \in Calls, SponsorNext(c),
               Touches(SponsorKinds, SponsorPcs)
        PROVE  Shapes'
    <2>1. DOMAIN call' = Calls /\ \A d \in Calls : Shape(call'[d])
      BY <1>2 DEF Shapes, Touches, Moved
    <2>2. \A d \in DOMAIN document' : Proper(d)
      BY <1>2 DEF Shapes, Touches, Leaves, Same, KindOf, SponsorKinds
    <2> QED BY <1>2, <2>1, <2>2, SponsorRecords DEF Shapes, NoFile
  <1> QED BY <1>1, <1>2, ShapesKept

\* The calls of the platform name documents of their own component.
THEOREM ShapesHold == PlatformSpec => []Shapes
  <1>1. DocumentsInit => Shapes
    BY IdleShape DEF DocumentsInit, Shapes, Kind
  <1>2. Shapes /\ [PlatformNext]_documentVars => Shapes'
    BY ShapesStep
  <1> QED BY <1>1, <1>2, PTL DEF PlatformSpec

\* What other components leave of a component's documents and calls.
Frame(kinds, pcs) ==
    /\ \A k \in kinds : Kind(k)' = Kind(k)
    /\ \A d : KindOf(d) \in kinds => Same(d)
    /\ \A c \in Calls : call'[c].pc \in pcs => call'[c] = call[c]

LEMMA Framed ==
  ASSUME Shapes, Shapes', NEW kinds, NEW pcs, Touches(kinds, pcs),
         NEW mine, NEW myPcs, kinds \cap mine = {}, pcs \cap myPcs = {},
         "idle" \notin myPcs
  PROVE  Frame(mine, myPcs)
  <1>1. \A d : KindOf(d) \in mine => Same(d)
    BY DEF Touches, Leaves
  <1>2. \A k \in mine : Kind(k)' = Kind(k)
    BY <1>1 DEF Kind, Same, KindOf, Shapes
  <1>3. \A c \in Calls : call'[c].pc \in myPcs => call'[c] = call[c]
    BY DEF Touches, Moved
  <1> QED BY <1>1, <1>2, <1>3 DEF Frame

\* How a step changes what there is of a kind.
LEMMA KindSame ==
  ASSUME Shapes, Shapes', NEW k, \A d : KindOf(d) = k => Same(d)
  PROVE  Kind(k)' = Kind(k)
  BY DEF Kind, Same, KindOf, Shapes

LEMMA KindKept ==
  ASSUME Shapes, Shapes', NEW k, \A d : KindOf(d) = k => Same(d)
  PROVE  /\ Kind(k)' = Kind(k)
         /\ \A d \in Kind(k) : document'[d] = document[d]
  BY DEF Kind, Same, KindOf, Shapes

LEMMA InKind ==
  ASSUME Shapes, NEW k, k # "none", NEW d
  PROVE  d \in Kind(k) <=> d \in DOMAIN document /\ KindOf(d) = k
  BY DEF Kind, KindOf, Shapes

LEMMA KindWith ==
  ASSUME Shapes, Shapes', NEW k, NEW a, KindOf(a) = k, a \in DOMAIN document',
         \A d : KindOf(d) = k /\ d # a => Same(d)
  PROVE  Kind(k)' = Kind(k) \cup {a}
  BY DEF Kind, Same, KindOf, Shapes

LEMMA FrameOf ==
  ASSUME Shapes, Shapes', NEW kinds, NEW mine, Leaves(kinds), kinds \cap mine = {},
         UNCHANGED call, NEW pcs
  PROVE  Frame(mine, pcs)
  BY KindSame DEF Leaves, Frame

\* The documents of a kind are numbered.
Numbered(k) ==
    /\ IsFiniteSet(Kind(k))
    /\ \A d \in Kind(k) : d = <<k, d[2]>> /\ d[2] \in 1 .. Cardinality(Kind(k))

LEMMA NumberedNext ==
  ASSUME NEW k, Numbered(k)
  PROVE  /\ NextOf(k) \in Nat \ {0}
         /\ <<k, NextOf(k)>> \notin DOMAIN document
  <1>1. Cardinality(Kind(k)) \in Nat
    BY FS_CardinalityType DEF Numbered
  <1>2. ASSUME <<k, NextOf(k)>> \in DOMAIN document
        PROVE  FALSE
    <2>1. <<k, NextOf(k)>> \in Kind(k)
      BY <1>2 DEF Kind
    <2>2. NextOf(k) \in 1 .. Cardinality(Kind(k))
      BY <2>1 DEF Numbered
    <2> QED BY <1>1, <2>2 DEF NextOf
  <1> QED BY <1>1, <1>2 DEF NextOf

LEMMA NumberedAdded ==
  ASSUME NEW k, Numbered(k), Kind(k)' = Kind(k) \cup {<<k, NextOf(k)>>}
  PROVE  Numbered(k)'
  <1> DEFINE a == <<k, NextOf(k)>>
             S == Kind(k)
  <1>1. a \notin S
    BY NumberedNext DEF Kind
  <1>2. IsFiniteSet(S) /\ Cardinality(S) \in Nat
    BY FS_CardinalityType DEF Numbered
  <1>3. /\ IsFiniteSet(S \cup {a})
        /\ Cardinality(S \cup {a}) = Cardinality(S) + 1
    <2> HIDE DEF a, S
    <2> QED BY <1>1, <1>2, FS_AddElement
  <1>4. a[2] = Cardinality(S) + 1
    BY DEF NextOf
  <1>5. ASSUME NEW d \in S \cup {a}
        PROVE  d = <<k, d[2]>> /\ d[2] \in 1 .. Cardinality(S) + 1
    <2>1. CASE d = a
      BY <1>2, <1>4, <2>1
    <2>2. CASE d \in S
      <3>1. d = <<k, d[2]>> /\ d[2] \in 1 .. Cardinality(S)
        BY <2>2 DEF Numbered
      <3> QED BY <1>2, <3>1
    <2> QED BY <2>1, <2>2
  <1> HIDE DEF a
  <1>6. Kind(k)' = S \cup {a}
    BY DEF a
  <1> QED BY <1>3, <1>5, <1>6 DEF Numbered

-----------------------------------------------------------------------------
(* Brands.                                                                 *)

BrandMine == {"brandApplication", "brand", "tenant"}

LEMMA BrandNames ==
  /\ BrandMine = {"brandApplication", "brand", "tenant"}
  /\ \A u, r : /\ KindOf(Application(u)) = "brandApplication"
               /\ KindOf(Brand(u)) = "brand"
               /\ KindOf(SubscriptionRequest(u, r)) = "subscription"
               /\ KindOf(EntryAttempts(u)) = "entryAttempts"
  /\ \A u : \A d \in TenantDocuments(u) : KindOf(d) = "tenant"
  BY DEF KindOf, Proper, BrandMine, Application, Brand, SubscriptionRequest,
     EntryAttempts, TenantDocuments, Tenant, TenantBrand, Membership,
     TenantReceipt, TenantAudit

\* An application is what it was made as; a brand names one that there is.
BrandInv ==
    /\ Numbered("brandApplication")
    /\ \A d \in Kind("brandApplication") :
         document[d] = [applicant |-> document[d].applicant,
                        status |-> document[d].status]
    /\ \A d \in Kind("brand") :
         d = Brand(d[2]) /\ document[d].application \in Kind("brandApplication")
    /\ BrandsApproved

LEMMA BrandFramed ==
  ASSUME Shapes, Shapes', BrandInv, Frame(BrandMine, {})
  PROVE  BrandInv'
  <1>1. \A k \in BrandMine : Kind(k)' = Kind(k)
    BY DEF Frame
  <1>2. \A k \in BrandMine : \A d \in Kind(k) : document'[d] = document[d]
    BY KindIs DEF Frame, Same, Kind
  <1>3. \A d : KindOf(d) = "brand" => (Exists(d)' <=> Exists(d))
    BY DEF Frame, Same, Exists, BrandMine
  <1>4. /\ Kind("brandApplication")' = Kind("brandApplication")
        /\ Kind("brand")' = Kind("brand") /\ Kind("tenant")' = Kind("tenant")
    BY <1>1 DEF BrandMine
  <1>5. \A d \in Kind("brandApplication") \cup Kind("brand") :
          document'[d] = document[d]
    BY <1>2 DEF BrandMine
  <1>6. \A u : KindOf(Brand(u)) = "brand"
    BY BrandNames
  <1>7. BrandsApproved'
    BY <1>3, <1>4, <1>5, <1>6 DEF BrandInv, BrandsApproved
  <1>8. Numbered("brandApplication")'
    BY <1>4 DEF BrandInv, Numbered
  <1> QED BY <1>4, <1>5, <1>7, <1>8 DEF BrandInv

LEMMA BrandApply ==
  ASSUME Shapes, Shapes', BrandInv, NEW u \in Users, Apply(u)
  PROVE  BrandInv'
  <1> DEFINE a == Application(NextOf("brandApplication"))
             A == Kind("brandApplication")
  <1>1. document' = a :> [applicant |-> u, status |-> "pending"] @@ document
    BY DEF Apply, Transact
  <1>2. a = <<"brandApplication", NextOf("brandApplication")>> /\ a \notin A
        /\ KindOf(a) = "brandApplication"
    BY NumberedNext, BrandNames DEF BrandInv, Application, Kind
  <1> HIDE DEF a
  <1>3. /\ a \in DOMAIN document'
        /\ document'[a] = [applicant |-> u, status |-> "pending"]
        /\ \A d : d # a => Same(d)
    BY <1>1, Write1
  <1>4. /\ Kind("brandApplication")' = A \cup {a}
        /\ Kind("brand")' = Kind("brand") /\ Kind("tenant")' = Kind("tenant")
    BY <1>2, <1>3, KindWith, KindSame
  <1>5. \A d \in A \cup Kind("brand") : document'[d] = document[d]
    BY <1>2, <1>3 DEF Same, Kind
  <1>6. Numbered("brandApplication")'
    BY <1>2, <1>4, NumberedAdded DEF BrandInv
  <1>7. \A v : Exists(Brand(v))' <=> Exists(Brand(v))
    BY <1>2, <1>3 DEF Same, Exists, Brand
  <1>8. BrandsApproved'
    BY <1>3, <1>4, <1>5, <1>7 DEF BrandInv, BrandsApproved
  <1> QED BY <1>3, <1>4, <1>5, <1>6, <1>8 DEF BrandInv

LEMMA BrandReview ==
  ASSUME Shapes, Shapes', BrandInv, NEW d \in Kind("brandApplication"),
         NEW decision \in {"under_review", "approved", "rejected"},
         ReviewBrandApplication(d, decision)
  PROVE  BrandInv'
  <1> DEFINE b == Brand(document[d].applicant)
             x == [applicant |-> document[d].applicant, status |-> decision]
             A == Kind("brandApplication")
  <1>1. /\ [document[d] EXCEPT !.status = decision] = x
        /\ document[d].status \notin {"approved"}
    <2>1. document[d] = [applicant |-> document[d].applicant,
                         status |-> document[d].status]
      BY DEF BrandInv
    <2>2. \A p, q, r : [[applicant |-> p, status |-> q] EXCEPT !.status = r]
                         = [applicant |-> p, status |-> r]
      OBVIOUS
    <2>3. [document[d] EXCEPT !.status = decision] = x
      BY <2>1, <2>2
    <2> QED BY <2>3 DEF ReviewBrandApplication, Decidable
  <1>2. /\ KindOf(d) = "brandApplication" /\ KindOf(b) = "brand" /\ d # b
        /\ d \in DOMAIN document
    BY KindIs, BrandNames DEF Kind
  <1>3. /\ document' = (d :> x @@ IF decision = "approved" /\ ~Exists(b)
                                  THEN b :> [application |-> d] ELSE <<>>)
                       @@ document
    BY <1>1 DEF ReviewBrandApplication, Transact
  <1>4. /\ d \in DOMAIN document' /\ document'[d] = x
        /\ decision = "approved" => b \in DOMAIN document'
        /\ decision = "approved" /\ b \notin DOMAIN document =>
             document'[b] = [application |-> d]
        /\ b \in DOMAIN document => document'[b] = document[b]
        /\ decision # "approved" => Same(b)
        /\ \A e : e # d /\ e # b => Same(e)
    <2> HIDE DEF b, x
    <2>1. CASE decision = "approved" /\ ~Exists(b)
      <3>1. document' = d :> x @@ b :> [application |-> d] @@ document
        BY <1>3, <2>1
      <3> QED BY <1>2, <2>1, <3>1, Write2 DEF Exists, Same
    <2>2. CASE ~ (decision = "approved" /\ ~Exists(b))
      <3>1. document' = (d :> x @@ <<>>) @@ document
        BY <1>3, <2>2
      <3>2. document' = d :> x @@ document
        BY <3>1 DEF @@, :>
      <3> QED BY <1>2, <2>2, <3>2, Write1 DEF Exists, Same
    <2> QED BY <2>1, <2>2
  <1>5. /\ Kind("brandApplication")' = A
        /\ Kind("tenant")' = Kind("tenant")
        /\ Kind("brand")' = Kind("brand") \cup (IF decision = "approved" THEN {b}
                                                ELSE {})
    <2>1. Kind("tenant")' = Kind("tenant")
      BY <1>2, <1>4, KindSame
    <2>2. Kind("brandApplication")' = A \cup {d}
      BY <1>2, <1>4, KindWith
    <2>3. decision = "approved" => Kind("brand")' = Kind("brand") \cup {b}
      BY <1>2, <1>4, KindWith
    <2>4. decision # "approved" => Kind("brand")' = Kind("brand")
      BY <1>2, <1>4, KindSame
    <2> QED BY <2>1, <2>2, <2>3, <2>4
  <1>6. \A e \in A \cup Kind("brand") : e # d => document'[e] = document[e]
    BY <1>2, <1>4 DEF Same, Kind
  <1>7. Numbered("brandApplication")'
    BY <1>5 DEF BrandInv, Numbered
  <1>8. \A e \in A : document'[e] = [applicant |-> document'[e].applicant,
                                     status |-> document'[e].status]
    BY <1>4, <1>6 DEF BrandInv
  <1>9. ASSUME NEW e \in Kind("brand")'
        PROVE  /\ e = Brand(e[2]) /\ document'[e].application \in A
               /\ document'[document'[e].application].applicant = e[2]
               /\ document'[document'[e].application].status = "approved"
    <2>1. CASE e \in Kind("brand")
      <3>1. document'[e] = document[e]
        BY <1>2, <1>6, <2>1 DEF Kind
      <3>2. /\ document[e].application \in A
            /\ document[document[e].application].applicant = e[2]
            /\ document[document[e].application].status = "approved"
            /\ e = Brand(e[2])
        BY <2>1 DEF BrandInv, BrandsApproved
      <3>3. document[e].application # d
        BY <1>1, <3>2
      <3> QED BY <1>6, <3>1, <3>2, <3>3
    <2>2. CASE e \notin Kind("brand")
      <3>1. e = b /\ decision = "approved" /\ b \notin DOMAIN document
        BY <1>2, <1>5, <2>2 DEF Kind
      <3>2. document'[e].application = d /\ e = Brand(e[2])
            /\ e[2] = document[d].applicant
        BY <1>4, <3>1 DEF Brand
      <3> QED BY <1>4, <3>1, <3>2
    <2> QED BY <2>1, <2>2
  <1>10. ASSUME NEW e \in A, document'[e].status = "approved"
         PROVE  Brand(document'[e].applicant) \in DOMAIN document'
    <2>1. CASE e = d
      BY <1>4, <2>1, <1>10
    <2>2. CASE e # d
      <3>1. document'[e] = document[e]
        BY <1>6, <2>2
      <3>2. Brand(document[e].applicant) \in Kind("brand")
        BY <1>10, <3>1 DEF BrandInv, BrandsApproved, Exists, Kind, Brand
      <3> QED BY <1>5, <3>1, <3>2 DEF Kind
    <2> QED BY <2>1, <2>2
  <1>11. BrandsApproved'
    BY <1>5, <1>9, <1>10 DEF BrandsApproved, Exists, BrandInv
  <1> QED BY <1>5, <1>7, <1>8, <1>9, <1>11 DEF BrandInv

LEMMA BrandProvision ==
  ASSUME Shapes, Shapes', BrandInv, NEW u \in Users, ProvisionInternalTenant(u)
  PROVE  BrandInv'
  <1> DEFINE T == TenantDocuments(u)
  <1>1. /\ \A d \in T : KindOf(d) = "tenant"
        /\ \A v : Tenant \in TenantDocuments(v)
    BY BrandNames DEF TenantDocuments
  <1>2. \A d \in T : d \notin DOMAIN document
    BY DEF ProvisionInternalTenant, stateOutcome, Exists
  <1>3. Kind("tenant") = {}
    BY <1>1, <1>2 DEF BrandInv, BrandsApproved, Kind
  <1>4. document' = [d \in T |-> [creator |-> u]] @@ document
    BY DEF ProvisionInternalTenant, Transact
  <1>5. /\ \A d \in T : d \in DOMAIN document'
        /\ \A d : d \notin T => Same(d)
    BY <1>4 DEF Same, @@
  <1>6. /\ Kind("brandApplication")' = Kind("brandApplication")
        /\ Kind("brand")' = Kind("brand")
    BY <1>1, <1>5, KindSame
  <1>7. Kind("tenant")' = T
    <2>1. \A d \in Kind("tenant")' : d \in T
      BY <1>3, <1>5 DEF Kind, Same
    <2>2. \A d \in T : d[1] = "tenant"
      BY <1>1 DEF KindOf
    <2> QED BY <1>5, <2>1, <2>2 DEF Kind
  <1>8. \A d \in Kind("brandApplication") \cup Kind("brand") :
          document'[d] = document[d]
    BY <1>1, <1>5, KindSame, KindKept
  <1>9. \A v : Exists(Brand(v))' <=> Exists(Brand(v))
    BY <1>1, <1>5, BrandNames DEF Same, Exists
  <1> HIDE DEF T
  <1>10. BrandsApproved'
    BY <1>6, <1>7, <1>8, <1>9 DEF BrandInv, BrandsApproved, T
  <1>11. Numbered("brandApplication")'
    BY <1>6 DEF BrandInv, Numbered
  <1> QED BY <1>6, <1>8, <1>10, <1>11 DEF BrandInv

LEMMA BrandStep ==
  ASSUME Shapes, Shapes', BrandInv, [PlatformNext]_documentVars
  PROVE  BrandInv'
  <1>1. BrandOnboardingNext \/ Frame(BrandMine, {})
    <2>1. \A kinds \in {WorkspaceKinds, DetectiveKinds, RiskKinds, CasesKinds,
                        UploadsKinds, SponsorKinds, LaboratoriesKinds,
                        TraceabilityKinds, TwinsKinds, PriorityKinds,
                        SupplyKinds, {}} :
            kinds \cap BrandMine = {}
      BY DEF WorkspaceKinds, DetectiveKinds, RiskKinds, CasesKinds, UploadsKinds,
         SponsorKinds, LaboratoriesKinds, TraceabilityKinds, TwinsKinds,
         PriorityKinds, SupplyKinds, BrandMine
    <2>2. BrandOnboardingNext \/ \E kinds, pcs : /\ Touches(kinds, pcs)
                                                 /\ kinds \cap BrandMine = {}
      BY <2>1, Stepped
    <2> QED BY <2>2, Framed
  <1>2. ASSUME NEW u,
               \/ \E r, product : CreateSubscriptionRequest(u, r, product)
               \/ \E codeMatches : VerifyAdminEntryGate(u, codeMatches)
               \/ LockEnds(u)
        PROVE  Frame(BrandMine, {})
    <2> DEFINE K == {"subscription", "entryAttempts"}
    <2>1. /\ \A r : KindOf(SubscriptionRequest(u, r)) \in K
          /\ KindOf(EntryAttempts(u)) \in K
      BY BrandNames
    <2>2. K \cap BrandMine = {}
      BY DEF BrandMine
    <2> HIDE DEF K
    <2>3. PICK a, x : KindOf(a) \in K /\ Transact(a :> x)
      BY <1>2, <2>1, Zenon
      DEF CreateSubscriptionRequest, VerifyAdminEntryGate, LockEnds
    <2>4. Leaves(K) /\ UNCHANGED call
      BY <2>3, Leaves1 DEF Transact
    <2> QED BY <2>2, <2>4, FrameOf
  <1>3. ASSUME BrandOnboardingNext
        PROVE  \E u \in Users :
                 \/ Apply(u)
                 \/ \E d \in Kind("brandApplication"),
                       decision \in {"under_review", "approved", "rejected"} :
                      ReviewBrandApplication(d, decision)
                 \/ \E r, product : CreateSubscriptionRequest(u, r, product)
                 \/ ProvisionInternalTenant(u)
                 \/ \E codeMatches : VerifyAdminEntryGate(u, codeMatches)
                 \/ LockEnds(u)
    BY <1>3, Zenon DEF BrandOnboardingNext
  <1> QED
    BY <1>1, <1>2, <1>3, BrandFramed, BrandApply, BrandReview, BrandProvision,
       Zenon

-----------------------------------------------------------------------------
(* Counterfeit twins.                                                      *)

TwinMine == {"twinReport", "comparison", "reportDeletion"}

\* How many reports there have been.
EverReported ==
    Cardinality(Kind("twinReport")) + Cardinality(Kind("reportDeletion"))

\* A report is what it was made as, and has a comparison once it is published.
ReportIs(r) ==
    LET x == document[r] IN
    /\ r = Report(r[2]) /\ r[2] \in 1 .. EverReported
    /\ x = [status |-> x.status, images |-> x.images,
            approved |-> x.approved, comparison |-> x.comparison]
    /\ IF x.status = "published" THEN x.comparison \in Kind("comparison")
       ELSE x.comparison = <<>>
    /\ x.approved \subseteq x.images

ComparisonIs(x) ==
    LET r == document[x].report IN
    /\ r \in Kind("twinReport") /\ document[r].status = "published"
    /\ document[r].comparison = x
    /\ document[x].images = document[r].approved

DeletionIs(x) ==
    LET r == document[x].report IN
    /\ r = Report(r[2]) /\ r[2] \in 1 .. EverReported
    /\ r \notin Kind("twinReport")
    /\ \A y \in Kind("reportDeletion") : document[y].report = r => y = x

\* The reports are numbered, those that were deleted too.
TwinInv ==
    /\ IsFiniteSet(Kind("twinReport"))
    /\ Numbered("comparison") /\ Numbered("reportDeletion")
    /\ \A r \in Kind("twinReport") : ReportIs(r)
    /\ \A x \in Kind("comparison") : ComparisonIs(x)
    /\ \A x \in Kind("reportDeletion") : DeletionIs(x)

LEMMA TwinMeans ==
  ASSUME Shapes, TwinInv
  PROVE  ComparisonsTold
  <1>1. \A r : Exists(Report(r)) => Report(r) \in Kind("twinReport")
    BY TwinsNames, InKind DEF Exists
  <1>2. ~Exists(<<>>)
    BY DEF Shapes, Proper, Exists
  <1>3. ASSUME NEW x \in Kind("comparison")
        PROVE  LET r == document[x].report IN
               /\ Exists(r) /\ document[r].status = "published"
               /\ document[r].comparison = x
               /\ document[x].images = document[r].approved
    BY DEF TwinInv, ComparisonIs, Kind, Exists
  <1>4. ASSUME NEW r \in Kind("twinReport")
        PROVE  /\ document[r].status = "published"
                    <=> Exists(document[r].comparison)
               /\ document[r].approved \subseteq document[r].images
    BY <1>2 DEF TwinInv, ReportIs, Kind, Exists
  <1>5. ASSUME NEW x \in Kind("reportDeletion")
        PROVE  /\ ~Exists(document[x].report)
               /\ \A y \in Kind("reportDeletion") :
                    document[x].report = document[y].report => x = y
    BY <1>1 DEF TwinInv, DeletionIs
  <1> QED BY <1>3, <1>4, <1>5 DEF ComparisonsTold

LEMMA TwinFramed ==
  ASSUME Shapes, Shapes', TwinInv, Frame(TwinMine, {})
  PROVE  TwinInv'
  <1>1. /\ Kind("twinReport")' = Kind("twinReport")
        /\ Kind("comparison")' = Kind("comparison")
        /\ Kind("reportDeletion")' = Kind("reportDeletion")
    BY DEF Frame, TwinMine
  <1>2. \A d \in Kind("twinReport") \cup Kind("comparison")
                   \cup Kind("reportDeletion") :
          document'[d] = document[d]
    BY KindIs DEF Frame, Same, Kind, TwinMine
  <1>3. EverReported' = EverReported
    BY <1>1 DEF EverReported
  <1>4. Numbered("comparison")' /\ Numbered("reportDeletion")'
    BY <1>1 DEF TwinInv, Numbered
  <1>5. \A r \in Kind("twinReport") : ReportIs(r)'
    BY <1>1, <1>2, <1>3 DEF TwinInv, ReportIs
  <1>6. \A x \in Kind("comparison") : ComparisonIs(x)'
    BY <1>1, <1>2 DEF TwinInv, ComparisonIs
  <1>7. \A x \in Kind("reportDeletion") : DeletionIs(x)'
    BY <1>1, <1>2, <1>3 DEF TwinInv, DeletionIs
  <1> QED BY <1>1, <1>4, <1>5, <1>6, <1>7 DEF TwinInv

LEMMA TwinCounts ==
  ASSUME TwinInv
  PROVE  /\ Cardinality(Kind("twinReport")) \in Nat
         /\ Cardinality(Kind("reportDeletion")) \in Nat
         /\ EverReported \in Nat
  BY FS_CardinalityType DEF TwinInv, Numbered, EverReported

LEMMA TwinSubmit ==
  ASSUME Shapes, Shapes', TwinInv, NEW images,
         SubmitCounterfeitTwinReport(images)
  PROVE  TwinInv'
  <1> DEFINE R == Kind("twinReport")
             D == Kind("reportDeletion")
             x == [status |-> "submitted", images |-> images,
                   approved |-> {}, comparison |-> <<>>]
  <1>0. PICK a : a = Report(EverReported + 1)
    OBVIOUS
  <1>1. document' = a :> x @@ document
    BY <1>0
    DEF SubmitCounterfeitTwinReport, Transact, NewReport, EverReported
  <1>2. /\ a \in DOMAIN document' /\ document'[a] = x
        /\ \A d : d # a => Same(d)
    BY <1>1, Write1
  <1>3. /\ Kind("twinReport")' = R \cup {a}
        /\ Kind("comparison")' = Kind("comparison")
        /\ Kind("reportDeletion")' = D
    <2>1. KindOf(a) = "twinReport"
      BY <1>0, TwinsNames
    <2>2. Kind("twinReport")' = R \cup {a}
      BY <1>2, <2>1, KindWith
    <2>3. Kind("comparison")' = Kind("comparison")
      BY <1>2, <2>1, KindSame
    <2>4. Kind("reportDeletion")' = D
      BY <1>2, <2>1, KindSame
    <2> QED BY <2>2, <2>3, <2>4
  <1>4. a \notin R /\ a[2] = EverReported + 1 /\ a = Report(a[2])
    <2>1. a[2] = EverReported + 1 /\ a = Report(a[2])
      BY <1>0 DEF Report
    <2>2. ASSUME a \in R
          PROVE  FALSE
      <3>1. a[2] \in 1 .. EverReported
        BY <2>2 DEF TwinInv, ReportIs
      <3> QED BY <2>1, <3>1, TwinCounts
    <2> QED BY <2>1, <2>2
  <1>5. /\ IsFiniteSet(R \cup {a})
        /\ Cardinality(R \cup {a}) = Cardinality(R) + 1
    <2> HIDE DEF R
    <2> QED BY <1>4, FS_AddElement DEF R, TwinInv
  <1>6. EverReported' = EverReported + 1
    BY <1>3, <1>5, TwinCounts DEF EverReported
  <1>7. \A i : i \in 1 .. EverReported => i \in 1 .. EverReported'
    BY <1>6, TwinCounts
  <1>8. \A d \in R \cup Kind("comparison") \cup D : document'[d] = document[d]
    BY <1>0, <1>2, <1>4, KindIs, TwinsNames DEF Same, Kind
  <1>9. ASSUME NEW r \in R
        PROVE  ReportIs(r)'
    BY <1>3, <1>7, <1>8 DEF TwinInv, ReportIs
  <1>10. ReportIs(a)'
    <2>1. a[2] \in 1 .. EverReported'
      BY <1>4, <1>6, TwinCounts
    <2> QED BY <1>2, <1>4, <2>1 DEF ReportIs
  <1>11. \A y \in Kind("comparison") : ComparisonIs(y)'
    BY <1>3, <1>8 DEF TwinInv, ComparisonIs
  <1>12. ASSUME NEW y \in D
         PROVE  DeletionIs(y)'
    <2>1. document[y].report # a
      <3>1. document[y].report[2] \in 1 .. EverReported
        BY DEF TwinInv, DeletionIs
      <3> QED BY <1>4, <3>1, TwinCounts
    <2> QED BY <1>3, <1>7, <1>8, <2>1 DEF TwinInv, DeletionIs
  <1>13. Numbered("comparison")' /\ Numbered("reportDeletion")'
    BY <1>3 DEF TwinInv, Numbered
  <1> QED BY <1>3, <1>5, <1>9, <1>10, <1>11, <1>12, <1>13 DEF TwinInv

LEMMA TwinReview ==
  ASSUME Shapes, Shapes', TwinInv, NEW r \in Kind("twinReport"),
         NEW decision \in {"under_review", "rejected", "published"},
         NEW approved, ReviewCounterfeitTwinReport(r, decision, approved)
  PROVE  TwinInv'
  <1> DEFINE R == Kind("twinReport")
             D == Kind("reportDeletion")
             C == Kind("comparison")
             Decided(comparison) ==
               [status |-> decision, images |-> document[r].images,
                approved |-> approved, comparison |-> comparison]
  <1>1. /\ document[r].status \notin {"published"} /\ ReportIs(r)
        /\ document[r].comparison = <<>>
        /\ approved \subseteq document[r].images
        /\ KindOf(r) = "twinReport" /\ r \in DOMAIN document
    BY KindIs
    DEF ReviewCounterfeitTwinReport, Undecided, TwinInv, ReportIs, Kind
  <1>2. PICK z : /\ z = Comparison(NextOf("comparison"))
                 /\ z = <<"comparison", NextOf("comparison")>>
                 /\ z \notin DOMAIN document /\ KindOf(z) = "comparison"
    BY NumberedNext, TwinsNames DEF TwinInv, Comparison
  <1> DEFINE reviewed ==
        [document[r] EXCEPT !.status = decision, !.approved = approved]
  <1>3. /\ reviewed = Decided(<<>>)
        /\ \A y : [reviewed EXCEPT !.comparison = y] = Decided(y)
    <2> DEFINE f == [status |-> document[r].status,
                     images |-> document[r].images,
                     approved |-> document[r].approved,
                     comparison |-> <<>>]
               g == [status |-> decision, images |-> document[r].images,
                     approved |-> document[r].approved,
                     comparison |-> <<>>]
    <2>1. document[r] = f
      BY <1>1 DEF ReportIs
    <2>2. [f EXCEPT !.status = decision] = g
      OBVIOUS
    <2>3. [g EXCEPT !.approved = approved] = Decided(<<>>)
      OBVIOUS
    <2>4. \A h : [h EXCEPT !.status = decision, !.approved = approved]
                   = [[h EXCEPT !.status = decision] EXCEPT !.approved = approved]
      OBVIOUS
    <2>5. \A y : [Decided(<<>>) EXCEPT !.comparison = y] = Decided(y)
      OBVIOUS
    <2> HIDE DEF f, g, Decided
    <2>6. reviewed = Decided(<<>>)
      BY <2>1, <2>2, <2>3, <2>4
    <2> HIDE DEF reviewed
    <2> QED BY <2>5, <2>6
  <1>a. \/ /\ decision # "published"
           /\ document' = r :> reviewed @@ document
        \/ /\ decision = "published"
           /\ document' = z :> [report |-> r, images |-> approved]
                @@ r :> [reviewed EXCEPT !.comparison = z] @@ document
    BY <1>2, Zenon DEF ReviewCounterfeitTwinReport, Transact
  <1> HIDE DEF reviewed
  <1>4. CASE decision # "published"
    <2>1. document' = r :> Decided(<<>>) @@ document
      BY <1>3, <1>4, <1>a
    <2>2. /\ document'[r] = Decided(<<>>) /\ r \in DOMAIN document'
          /\ \A d : d # r => Same(d)
      BY <2>1, Write1
    <2>3. /\ Kind("twinReport")' = R /\ Kind("comparison")' = C
          /\ Kind("reportDeletion")' = D
      <3>1. Kind("twinReport")' = R \cup {r}
        BY <1>1, <2>2, KindWith
      <3>2. Kind("comparison")' = C
        BY <1>1, <2>2, KindSame
      <3>3. Kind("reportDeletion")' = D
        BY <1>1, <2>2, KindSame
      <3> QED BY <3>1, <3>2, <3>3
    <2>4. \A d \in R \cup C \cup D : d # r => document'[d] = document[d]
      BY <2>2 DEF Same, Kind
    <2>5. r \notin C \cup D
      BY <1>1, KindIs
    <2>6. EverReported' = EverReported
      BY <2>3 DEF EverReported
    <2>7. ReportIs(r)'
      BY <1>1, <1>4, <2>2, <2>6 DEF ReportIs
    <2>8. \A y \in R : ReportIs(y)'
      BY <2>3, <2>4, <2>6, <2>7 DEF TwinInv, ReportIs
    <2>9. ASSUME NEW y \in C
          PROVE  ComparisonIs(y)'
      <3>1. document[y].report # r /\ document[y].report \in R
        BY <1>1 DEF TwinInv, ComparisonIs
      <3> QED BY <2>3, <2>4, <2>5, <3>1 DEF TwinInv, ComparisonIs
    <2>10. \A y \in D : DeletionIs(y)'
      BY <2>3, <2>4, <2>5, <2>6 DEF TwinInv, DeletionIs
    <2>11. Numbered("comparison")' /\ Numbered("reportDeletion")'
      BY <2>3 DEF TwinInv, Numbered
    <2> QED BY <2>3, <2>8, <2>9, <2>10, <2>11 DEF TwinInv
  <1>5. CASE decision = "published"
    <2>1. document' = z :> [report |-> r, images |-> approved]
                      @@ r :> Decided(z) @@ document
      BY <1>3, <1>5, <1>a
    <2>2. /\ document'[r] = Decided(z) /\ r \in DOMAIN document'
          /\ z \in DOMAIN document'
          /\ document'[z] = [report |-> r, images |-> approved]
          /\ \A d : d # r /\ d # z => Same(d)
      BY <1>1, <1>2, <2>1, Write2
    <2>3. /\ Kind("twinReport")' = R /\ Kind("comparison")' = C \cup {z}
          /\ Kind("reportDeletion")' = D
      <3>1. Kind("twinReport")' = R \cup {r}
        BY <1>1, <1>2, <2>2, KindWith
      <3>2. Kind("comparison")' = C \cup {z}
        BY <1>1, <1>2, <2>2, KindWith
      <3>3. Kind("reportDeletion")' = D
        BY <1>1, <1>2, <2>2, KindSame
      <3> QED BY <3>1, <3>2, <3>3
    <2>4. \A d \in R \cup C \cup D : d # r => document'[d] = document[d]
      BY <1>2, <2>2 DEF Same, Kind
    <2>5. r \notin C \cup D
      BY <1>1, KindIs
    <2>6. EverReported' = EverReported
      BY <2>3 DEF EverReported
    <2>7. ReportIs(r)'
      BY <1>1, <1>5, <2>2, <2>3, <2>6 DEF ReportIs
    <2>8. \A y \in R : ReportIs(y)'
      BY <2>3, <2>4, <2>6, <2>7 DEF TwinInv, ReportIs
    <2>9. ASSUME NEW y \in C
          PROVE  ComparisonIs(y)'
      <3>1. document[y].report # r /\ document[y].report \in R
        BY <1>1 DEF TwinInv, ComparisonIs
      <3> QED BY <2>3, <2>4, <2>5, <3>1 DEF TwinInv, ComparisonIs
    <2>10. ComparisonIs(z)'
      BY <1>5, <2>2, <2>3 DEF ComparisonIs
    <2>11. \A y \in D : DeletionIs(y)'
      BY <2>3, <2>4, <2>5, <2>6 DEF TwinInv, DeletionIs
    <2>12. Numbered("comparison")' /\ Numbered("reportDeletion")'
      BY <1>2, <2>3, NumberedAdded DEF TwinInv, Numbered
    <2> QED BY <2>3, <2>8, <2>9, <2>10, <2>11, <2>12 DEF TwinInv
  <1> QED BY <1>4, <1>5

LEMMA TwinDelete ==
  ASSUME Shapes, Shapes', TwinInv, NEW r \in Kind("twinReport"),
         DeleteCounterfeitTwinReport(r)
  PROVE  TwinInv'
  <1> DEFINE R == Kind("twinReport")
             D == Kind("reportDeletion")
             C == Kind("comparison")
  <1>1. /\ document[r].status # "published" /\ ReportIs(r)
        /\ KindOf(r) = "twinReport" /\ r \in DOMAIN document
    BY KindIs DEF DeleteCounterfeitTwinReport, Deletable, TwinInv, Kind
  <1>2. PICK z : /\ z = Deletion(NextOf("reportDeletion"))
                 /\ z = <<"reportDeletion", NextOf("reportDeletion")>>
                 /\ z \notin DOMAIN document /\ KindOf(z) = "reportDeletion"
    BY NumberedNext, TwinsNames DEF TwinInv, Deletion
  <1>3. PICK x : /\ x.report = r
                 /\ document' = z :> x
                      @@ [d \in DOMAIN document \ {r} |-> document[d]]
    BY <1>2 DEF DeleteCounterfeitTwinReport, TransactDeleting
  <1>4. /\ z \in DOMAIN document' /\ document'[z] = x
        /\ r \notin DOMAIN document'
        /\ \A d : d # r /\ d # z => Same(d)
    BY <1>1, <1>2, <1>3 DEF Same, @@, :>
  <1>5. /\ Kind("twinReport")' = R \ {r} /\ Kind("comparison")' = C
        /\ Kind("reportDeletion")' = D \cup {z}
    <2>1. Kind("comparison")' = C
      BY <1>1, <1>2, <1>4, KindSame
    <2>2. Kind("reportDeletion")' = D \cup {z}
      BY <1>1, <1>2, <1>4, KindWith
    <2>3. \A d : d \in Kind("twinReport")' <=> d \in R \ {r}
      BY <1>2, <1>4 DEF Kind, Same, KindOf
    <2> QED BY <2>1, <2>2, <2>3
  <1>6. /\ IsFiniteSet(R \ {r})
        /\ Cardinality(R \ {r}) = Cardinality(R) - 1
    <2> HIDE DEF R
    <2> QED BY FS_RemoveElement DEF R, TwinInv
  <1>7. Cardinality(D \cup {z}) = Cardinality(D) + 1
    <2>1. z \notin D /\ IsFiniteSet(D)
      BY <1>2 DEF Kind, TwinInv, Numbered
    <2> HIDE DEF D
    <2> QED BY <2>1, FS_AddElement
  <1>8. EverReported' = EverReported
    BY <1>5, <1>6, <1>7, TwinCounts DEF EverReported
  <1>9. \A d \in (R \ {r}) \cup C \cup D : document'[d] = document[d]
    BY <1>1, <1>2, <1>4, KindIs DEF Same, Kind
  <1>10. ASSUME NEW y \in R \ {r}
         PROVE  ReportIs(y)'
    BY <1>5, <1>8, <1>9 DEF TwinInv, ReportIs
  <1>11. ASSUME NEW y \in C
         PROVE  ComparisonIs(y)'
    <2>1. document[y].report # r /\ document[y].report \in R
      BY <1>1 DEF TwinInv, ComparisonIs
    <2> QED BY <1>5, <1>9, <2>1 DEF TwinInv, ComparisonIs
  <1>12. ASSUME NEW y \in D
         PROVE  document[y].report # r
    BY DEF TwinInv, DeletionIs
  <1>13. ASSUME NEW y \in D
         PROVE  DeletionIs(y)'
    BY <1>4, <1>3, <1>5, <1>8, <1>9, <1>12, ZenonT(30) DEF TwinInv, DeletionIs
  <1>14. DeletionIs(z)'
    BY <1>1, <1>3, <1>4, <1>5, <1>8, <1>9, <1>12 DEF DeletionIs, ReportIs
  <1>15. Numbered("comparison")' /\ Numbered("reportDeletion")'
    BY <1>2, <1>5, NumberedAdded DEF TwinInv, Numbered
  <1> QED BY <1>5, <1>6, <1>10, <1>11, <1>13, <1>14, <1>15 DEF TwinInv

LEMMA TwinStep ==
  ASSUME Shapes, Shapes', TwinInv, [PlatformNext]_documentVars
  PROVE  TwinInv'
  <1>1. CounterfeitTwinsNext \/ Frame(TwinMine, {})
    <2>1. \A kinds \in {WorkspaceKinds, DetectiveKinds, RiskKinds, CasesKinds,
                        UploadsKinds, SponsorKinds, LaboratoriesKinds,
                        TraceabilityKinds, PriorityKinds, SupplyKinds,
                        BrandKinds, {}} :
            kinds \cap TwinMine = {}
      BY DEF WorkspaceKinds, DetectiveKinds, RiskKinds, CasesKinds, UploadsKinds,
         SponsorKinds, LaboratoriesKinds, TraceabilityKinds, PriorityKinds,
         SupplyKinds, BrandKinds, TwinMine
    <2>2. CounterfeitTwinsNext \/ \E kinds, pcs : /\ Touches(kinds, pcs)
                                                  /\ kinds \cap TwinMine = {}
      BY <2>1, Stepped
    <2> QED BY <2>2, Framed
  <1>2. ASSUME \/ \E code, status : CreateCounterfeitTwinRecord(code, status)
               \/ \E status : \E d \in Kind("twinRecord") :
                    UpdateCounterfeitTwinRecord(d, status)
        PROVE  Frame(TwinMine, {})
    <2>1. \A d \in Kind("twinRecord") : KindOf(d) = "twinRecord"
      BY KindIs
    <2>2. PICK a, x : KindOf(a) = "twinRecord" /\ Transact(a :> x)
      BY <1>2, <2>1, TwinsNames, Zenon
      DEF CreateCounterfeitTwinRecord, UpdateCounterfeitTwinRecord
    <2>3. Leaves({"twinRecord"}) /\ UNCHANGED call
      BY <2>2, Leaves1 DEF Transact
    <2>4. {"twinRecord"} \cap TwinMine = {}
      BY DEF TwinMine
    <2> QED BY <2>3, <2>4, FrameOf
  <1>3. ASSUME CounterfeitTwinsNext
        PROVE  \/ \E images : SubmitCounterfeitTwinReport(images)
               \/ \E r \in Kind("twinReport") :
                    \/ \E approved :
                         \E decision \in {"under_review", "rejected", "published"} :
                         ReviewCounterfeitTwinReport(r, decision, approved)
                    \/ DeleteCounterfeitTwinReport(r)
               \/ \E code, status : CreateCounterfeitTwinRecord(code, status)
               \/ \E status : \E d \in Kind("twinRecord") :
                    UpdateCounterfeitTwinRecord(d, status)
    BY <1>3, Zenon DEF CounterfeitTwinsNext
  <1> QED
    BY <1>1, <1>2, <1>3, TwinFramed, TwinSubmit, TwinReview, TwinDelete, Zenon


-----------------------------------------------------------------------------
(* Sponsors.                                                               *)

SponsorMine == {"sponsor", "logo"}

\* Who has a logo file: records, uploads that are not written, and deletions
\* that are not done.
HasUpload(c) == call[c].pc = "sponsor" /\ call[c].uploaded # NoFile
HasDeletion(c) == call[c].pc = "sponsorDone" /\ Replaced(call[c])

RecordIs(d) ==
    LET path == document[d].path IN
    path # NoFile => /\ path \in Kind("logo") /\ document[path].stored
                     /\ document[d].url = path
                     /\ \A e \in Kind("sponsor") : document[e].path = path => e = d

UploadIs(c) ==
    LET file == call[c].uploaded IN
    /\ file \in Kind("logo") /\ document[file].stored
    /\ \A d \in Kind("sponsor") : document[d].path # file
    /\ \A e \in Calls \ {c} : HasUpload(e) => call[e].uploaded # file

DeleteIs(c) ==
    LET file == call[c].before IN
    /\ file \in Kind("logo")
    /\ \A d \in Kind("sponsor") : document[d].path # file
    /\ \A e \in Calls : HasUpload(e) => call[e].uploaded # file

\* A logo file that one of them has stored is nobody else's.
SponsorInv ==
    /\ Numbered("logo")
    /\ \A d \in Kind("sponsor") : RecordIs(d)
    /\ \A c \in Calls : HasUpload(c) => UploadIs(c)
    /\ \A c \in Calls : HasDeletion(c) => DeleteIs(c)

LEMMA SponsorMeans ==
  ASSUME SponsorInv
  PROVE  LogosStored
  BY DEF SponsorInv, RecordIs, LogosStored, Stored

LEMMA SponsorFramed ==
  ASSUME Shapes, Shapes', SponsorInv, Frame(SponsorMine, SponsorPcs)
  PROVE  SponsorInv'
  <1>1. /\ Kind("sponsor")' = Kind("sponsor") /\ Kind("logo")' = Kind("logo")
        /\ \A d \in Kind("sponsor") \cup Kind("logo") : document'[d] = document[d]
    BY KindIs DEF Frame, Same, Kind, SponsorMine
  <1>2. \A c \in Calls : /\ HasUpload(c)' => HasUpload(c) /\ call'[c] = call[c]
                         /\ HasDeletion(c)' => HasDeletion(c) /\ call'[c] = call[c]
    BY SponsorNames DEF Frame, HasUpload, HasDeletion
  <1>3. Numbered("logo")'
    BY <1>1 DEF SponsorInv, Numbered
  <1>4. \A d \in Kind("sponsor") : RecordIs(d)'
    BY <1>1 DEF SponsorInv, RecordIs
  <1>5. \A c \in Calls : HasUpload(c)' => UploadIs(c)'
    BY <1>1, <1>2 DEF SponsorInv, UploadIs
  <1>6. \A c \in Calls : HasDeletion(c)' => DeleteIs(c)'
    BY <1>1, <1>2 DEF SponsorInv, DeleteIs
  <1> QED BY <1>1, <1>3, <1>4, <1>5, <1>6 DEF SponsorInv

\* A new file is nobody's yet.
LEMMA SponsorUpload ==
  ASSUME Shapes, Shapes', SponsorInv, NEW c \in Calls, NEW d,
         UploadSponsorLogo(c, d)
  PROVE  SponsorInv'
  <1>1. PICK f : /\ f = Logo(NextOf("logo")) /\ f = <<"logo", NextOf("logo")>>
                 /\ f \notin DOMAIN document /\ KindOf(f) = "logo" /\ f # NoFile
    BY NumberedNext, SponsorNames DEF SponsorInv, Logo, NoFile
  <1>2. PICK next :
          /\ next.pc = "sponsor" /\ next.uploaded = f
          /\ document' = f :> [stored |-> TRUE] @@ document
          /\ call' = [call EXCEPT ![c] = next]
    BY <1>1 DEF UploadSponsorLogo, Claim
  <1>3. /\ call'[c] = next /\ \A e \in Calls \ {c} : call'[e] = call[e]
    BY <1>2 DEF Shapes
  <1>4. /\ f \in DOMAIN document' /\ document'[f] = [stored |-> TRUE]
        /\ \A e : e # f => Same(e)
    BY <1>2, Write1
  <1>5. Kind("sponsor")' = Kind("sponsor")
    BY <1>1, <1>4, KindSame
  <1>6. Kind("logo")' = Kind("logo") \cup {f}
    BY <1>1, <1>4, KindWith
  <1>7. \A e \in Kind("sponsor") \cup Kind("logo") :
          e # f /\ document'[e] = document[e]
    BY <1>1, <1>4 DEF Same, Kind
  <1>8. Numbered("logo")'
    BY <1>1, <1>6, NumberedAdded DEF SponsorInv
  <1>9. ASSUME NEW e \in Kind("sponsor")
        PROVE  RecordIs(e)' /\ document'[e].path # f
    BY <1>1, <1>5, <1>6, <1>7 DEF SponsorInv, RecordIs
  <1>10. HasUpload(c)' /\ ~HasDeletion(c)'
    BY <1>1, <1>2, <1>3 DEF HasUpload, HasDeletion
  <1>11. \A e \in Calls \ {c} :
           /\ HasUpload(e)' <=> HasUpload(e)
           /\ HasDeletion(e)' <=> HasDeletion(e)
    BY <1>3 DEF HasUpload, HasDeletion
  <1>12. \A e \in Calls \ {c} : /\ HasUpload(e) => call[e].uploaded # f
                                /\ HasDeletion(e) => call[e].before # f
    BY <1>7 DEF SponsorInv, UploadIs, DeleteIs
  <1>13. UploadIs(c)'
    BY <1>2, <1>3, <1>4, <1>5, <1>6, <1>9, <1>11, <1>12 DEF UploadIs
  <1>14. \A e \in Calls \ {c} : HasUpload(e)' => UploadIs(e)'
    BY <1>2, <1>3, <1>5, <1>6, <1>7, <1>11, <1>12 DEF SponsorInv, UploadIs
  <1>15. \A e \in Calls \ {c} : HasDeletion(e)' => DeleteIs(e)'
    BY <1>2, <1>3, <1>5, <1>6, <1>7, <1>11, <1>12 DEF SponsorInv, DeleteIs
  <1> QED BY <1>5, <1>8, <1>9, <1>10, <1>13, <1>14, <1>15 DEF SponsorInv

\* The record takes over the file of the upload and leaves the one it had; or
\* it keeps that.
LEMMA SponsorWrite ==
  ASSUME Shapes, Shapes', SponsorInv, NEW c \in Calls, NEW status,
         WriteSponsor(c, status)
  PROVE  SponsorInv'
  <1>1. PICK r, up, before, after, u :
          /\ r = call[c].record /\ up = call[c].uploaded
          /\ before = Before(r) /\ after = PathAfter(call[c])
          /\ u = UrlAfter(call[c])
    OBVIOUS
  <1>2. call[c].pc = "sponsor" /\ KindOf(r) = "sponsor"
    BY <1>1, SponsorFiles DEF WriteSponsor
  <1>3. PICK e, x, y, next :
          /\ KindOf(e) = "sponsorEvent"
          /\ x = [status |-> status, url |-> u, path |-> after]
          /\ next = [pc |-> "sponsorDone", before |-> before, after |-> after]
          /\ Step(c, r :> x @@ e :> y, next)
    BY <1>1, SponsorNames DEF WriteSponsor
  <1>4. /\ call'[c] = next /\ \A o \in Calls \ {c} : call'[o] = call[o]
        /\ r \in DOMAIN document' /\ document'[r] = x
        /\ \A d : d # r /\ d # e => Same(d)
    BY <1>2, <1>3, StepIs, Write2 DEF Moved, Shapes
  <1>5. Kind("sponsor")' = Kind("sponsor") \cup {r}
    BY <1>2, <1>3, <1>4, KindWith
  <1>6. Kind("logo")' = Kind("logo")
    BY <1>2, <1>3, <1>4, KindSame
  <1>7. \A d \in Kind("sponsor") \cup Kind("logo") :
          d # r => document'[d] = document[d]
    BY <1>3, <1>4, KindIs DEF Same, Kind
  <1>8. r \notin Kind("logo")
    BY <1>2, KindIs
  <1>9. /\ before # NoFile => /\ r \in Kind("sponsor")
                              /\ document[r].path = before
        /\ r \in Kind("sponsor") => document[r].path = before
    BY <1>1, <1>2, InKind DEF Before, Exists
  <1>10. after # NoFile =>
           /\ u = after
           /\ \/ after = up /\ HasUpload(c)
              \/ after = before
    BY <1>1, <1>2, <1>9, InKind
    DEF PathAfter, UrlAfter, HasUpload, Before, Exists, SponsorInv, RecordIs
  <1>11. /\ ~HasUpload(c)'
         /\ HasDeletion(c)' <=> before # NoFile /\ before # after
         /\ \A o \in Calls \ {c} : /\ HasUpload(o)' <=> HasUpload(o)
                                   /\ HasDeletion(o)' <=> HasDeletion(o)
    BY <1>3, <1>4 DEF HasUpload, HasDeletion, Replaced
  <1>12. after # NoFile =>
           /\ after \in Kind("logo") /\ document[after].stored
           /\ \A d \in Kind("sponsor") : d # r => document[d].path # after
           /\ \A o \in Calls \ {c} : HasUpload(o) => call[o].uploaded # after
           /\ \A o \in Calls : HasDeletion(o) => call[o].before # after
    <2>1. CASE after = up /\ HasUpload(c)
      BY <1>1, <2>1 DEF SponsorInv, UploadIs, DeleteIs
    <2>2. CASE after = before
      BY <1>1, <1>9, <2>2 DEF SponsorInv, RecordIs, UploadIs, DeleteIs
    <2> QED BY <1>10, <2>1, <2>2
  <1>13. RecordIs(r)'
    BY <1>3, <1>4, <1>5, <1>6, <1>7, <1>8, <1>10, <1>12 DEF RecordIs
  <1>14. ASSUME NEW d \in Kind("sponsor"), d # r
         PROVE  RecordIs(d)'
    <2>1. document'[d] = document[d] /\ RecordIs(d)
      BY <1>7, <1>14 DEF SponsorInv
    <2>2. document[d].path # NoFile => document[d].path # after
      BY <1>12, <1>14
    <2> QED BY <1>3, <1>4, <1>5, <1>6, <1>7, <1>8, <2>1, <2>2 DEF RecordIs
  <1>15. ASSUME NEW o \in Calls \ {c}, HasUpload(o)
         PROVE  UploadIs(o)'
    <2>1. call'[o] = call[o] /\ UploadIs(o) /\ call[o].uploaded # NoFile
      BY <1>4, <1>15 DEF SponsorInv, HasUpload
    <2>2. call[o].uploaded # after
      BY <1>12, <1>15, <2>1
    <2>3. \A d \in Kind("sponsor") \cup {r} : document'[d].path # call[o].uploaded
      BY <1>3, <1>4, <1>7, <2>1, <2>2 DEF UploadIs
    <2> QED BY <1>4, <1>5, <1>6, <1>7, <1>8, <1>11, <2>1, <2>3 DEF UploadIs
  <1>16. ASSUME NEW o \in Calls \ {c}, HasDeletion(o)
         PROVE  DeleteIs(o)'
    <2>1. call'[o] = call[o] /\ DeleteIs(o) /\ call[o].before # NoFile
      BY <1>4, <1>16 DEF SponsorInv, HasDeletion, Replaced
    <2>2. call[o].before # after
      BY <1>12, <1>16, <2>1
    <2>3. \A d \in Kind("sponsor") \cup {r} : document'[d].path # call[o].before
      BY <1>3, <1>4, <1>7, <2>1, <2>2 DEF DeleteIs
    <2> QED BY <1>4, <1>5, <1>6, <1>7, <1>8, <1>11, <2>1, <2>3 DEF DeleteIs
  <1>17. ASSUME before # NoFile, before # after
         PROVE  DeleteIs(c)'
    <2>1. /\ before \in Kind("logo")
          /\ \A d \in Kind("sponsor") : d # r => document[d].path # before
          /\ \A o \in Calls : HasUpload(o) => call[o].uploaded # before
      BY <1>9, <1>17 DEF SponsorInv, RecordIs, UploadIs
    <2>2. \A d \in Kind("sponsor") \cup {r} : document'[d].path # before
      BY <1>3, <1>4, <1>7, <1>17, <2>1
    <2> QED BY <1>3, <1>4, <1>5, <1>6, <1>11, <2>1, <2>2 DEF DeleteIs
  <1>18. Numbered("logo")'
    BY <1>6 DEF SponsorInv, Numbered
  <1> QED BY <1>5, <1>11, <1>13, <1>14, <1>15, <1>16, <1>17, <1>18 DEF SponsorInv

\* A refused upsert deletes its upload, a finished one the file it replaced.
LEMMA SponsorCommit ==
  ASSUME Shapes, Shapes', SponsorInv, NEW c \in Calls,
         RefuseSponsor(c) \/ DeleteReplacedLogo(c)
  PROVE  SponsorInv'
  <1>1. PICK w : /\ Commit(c, w)
                 /\ \/ w = <<>>
                    \/ HasUpload(c) /\ w = call[c].uploaded :> [stored |-> FALSE]
                    \/ HasDeletion(c) /\ w = call[c].before :> [stored |-> FALSE]
    BY DEF RefuseSponsor, DeleteReplacedLogo, HasUpload, HasDeletion
  <1>2. PICK gone : /\ \/ w = <<>>
                       \/ /\ w = gone :> [stored |-> FALSE]
                          /\ gone \in Kind("logo")
                    /\ \A d \in Kind("sponsor") : document[d].path # gone
                                                 \/ gone \notin Kind("logo")
                    /\ \A o \in Calls \ {c} : HasUpload(o) =>
                         call[o].uploaded # gone \/ gone \notin Kind("logo")
    <2>1. CASE w = <<>>
      <3>1. PICK gone : gone \notin Kind("logo")
        <4>1. CASE <<>> \in DOMAIN document
          BY <4>1 DEF Shapes, Proper
        <4>2. CASE <<>> \notin DOMAIN document
          BY <4>2 DEF Kind
        <4> QED BY <4>1, <4>2
      <3> QED BY <2>1, <3>1
    <2>2. CASE HasUpload(c) /\ w = call[c].uploaded :> [stored |-> FALSE]
      BY <2>2 DEF SponsorInv, UploadIs
    <2>3. CASE HasDeletion(c) /\ w = call[c].before :> [stored |-> FALSE]
      BY <2>3 DEF SponsorInv, DeleteIs
    <2> QED BY <1>1, <2>1, <2>2, <2>3
  <1>3. /\ document' = w @@ document /\ call'[c] = Idle
        /\ \A o \in Calls \ {c} : call'[o] = call[o]
    BY <1>1, CommitIs DEF Moved, Shapes
  <1>4. \A d : d # gone \/ d \notin Kind("logo") => Same(d)
    BY <1>2, <1>3, WriteNone, Write1
  <1>5. gone \in Kind("logo") => gone \in DOMAIN document'
    BY <1>2, <1>3, WriteNone, Write1 DEF Same, Kind
  <1>6. Kind("sponsor")' = Kind("sponsor")
    BY <1>4, KindSame, KindIs
  <1>7. Kind("logo")' = Kind("logo")
    BY <1>4, <1>5 DEF Kind, Same
  <1>8. /\ \A d \in Kind("sponsor") : document'[d] = document[d]
        /\ \A d \in Kind("logo") : d # gone => document'[d] = document[d]
    BY <1>4, KindIs DEF Same, Kind
  <1>9. ~HasUpload(c)' /\ ~HasDeletion(c)'
    BY <1>3 DEF HasUpload, HasDeletion, Idle
  <1>10. \A o \in Calls \ {c} : /\ HasUpload(o)' <=> HasUpload(o)
                                /\ HasDeletion(o)' <=> HasDeletion(o)
    BY <1>3 DEF HasUpload, HasDeletion
  <1>11. ASSUME NEW d \in Kind("sponsor")
         PROVE  RecordIs(d)'
    BY <1>2, <1>6, <1>7, <1>8 DEF SponsorInv, RecordIs
  <1>12. ASSUME NEW o \in Calls \ {c}, HasUpload(o)
         PROVE  UploadIs(o)'
    <2>1. UploadIs(o) /\ call'[o] = call[o] /\ call[o].uploaded # gone
      BY <1>2, <1>3, <1>12 DEF SponsorInv, UploadIs
    <2> QED BY <1>3, <1>6, <1>7, <1>8, <1>9, <1>10, <2>1 DEF UploadIs
  <1>13. ASSUME NEW o \in Calls \ {c}, HasDeletion(o)
         PROVE  DeleteIs(o)'
    <2>1. DeleteIs(o) /\ call'[o] = call[o]
      BY <1>3, <1>13 DEF SponsorInv
    <2> QED BY <1>3, <1>6, <1>7, <1>8, <1>9, <1>10, <2>1 DEF DeleteIs
  <1>14. Numbered("logo")'
    BY <1>7 DEF SponsorInv, Numbered
  <1> QED BY <1>6, <1>9, <1>10, <1>11, <1>12, <1>13, <1>14 DEF SponsorInv

LEMMA SponsorNoUpload ==
  ASSUME Shapes, Shapes', SponsorInv, NEW c \in Calls, NEW d, NEW url,
         NoUpload(c, d, url)
  PROVE  SponsorInv'
  <1>1. PICK next : Read(c, next) /\ next.pc = "sponsor" /\ next.uploaded = NoFile
    BY DEF NoUpload
  <1>2. /\ \A e : Same(e)
        /\ call'[c] = next /\ \A o \in Calls \ {c} : call'[o] = call[o]
    BY <1>1, ReadIs DEF Moved, Shapes
  <1>3. /\ Kind("sponsor")' = Kind("sponsor") /\ Kind("logo")' = Kind("logo")
        /\ \A e \in Kind("sponsor") \cup Kind("logo") : document'[e] = document[e]
    BY <1>2 DEF Kind, Same
  <1>4. ~HasUpload(c)' /\ ~HasDeletion(c)'
    BY <1>1, <1>2 DEF HasUpload, HasDeletion
  <1>5. \A o \in Calls \ {c} : /\ HasUpload(o)' <=> HasUpload(o)
                               /\ HasDeletion(o)' <=> HasDeletion(o)
    BY <1>2 DEF HasUpload, HasDeletion
  <1>6. \A e \in Kind("sponsor") : RecordIs(e)'
    BY <1>3 DEF SponsorInv, RecordIs
  <1>7. \A o \in Calls \ {c} : HasUpload(o) => UploadIs(o)'
    BY <1>2, <1>3, <1>4, <1>5 DEF SponsorInv, UploadIs
  <1>8. \A o \in Calls \ {c} : HasDeletion(o) => DeleteIs(o)'
    BY <1>2, <1>3, <1>4, <1>5 DEF SponsorInv, DeleteIs
  <1>9. Numbered("logo")'
    BY <1>3 DEF SponsorInv, Numbered
  <1> QED BY <1>3, <1>4, <1>5, <1>6, <1>7, <1>8, <1>9 DEF SponsorInv

LEMMA SponsorStep ==
  ASSUME Shapes, Shapes', SponsorInv, [PlatformNext]_documentVars
  PROVE  SponsorInv'
  <1>1. (\E c \in Calls : SponsorNext(c)) \/ Frame(SponsorMine, SponsorPcs)
    <2>1. \A kinds \in {WorkspaceKinds, DetectiveKinds, RiskKinds, CasesKinds,
                        UploadsKinds, LaboratoriesKinds, TraceabilityKinds,
                        TwinsKinds, PriorityKinds, SupplyKinds, BrandKinds, {}} :
            kinds \cap SponsorMine = {}
      BY DEF WorkspaceKinds, DetectiveKinds, RiskKinds, CasesKinds, UploadsKinds,
         LaboratoriesKinds, TraceabilityKinds, TwinsKinds, PriorityKinds,
         SupplyKinds, BrandKinds, SponsorMine
    <2>2. /\ \A pcs \in {WorkspacePcs, DetectivePcs, RiskPcs, CasesPcs,
                         UploadsPcs, {}} : pcs \cap SponsorPcs = {}
          /\ "idle" \notin SponsorPcs
      BY DEF WorkspacePcs, DetectivePcs, RiskPcs, CasesPcs, UploadsPcs, SponsorPcs
    <2>3. \/ \E c \in Calls : SponsorNext(c)
          \/ \E kinds, pcs : /\ Touches(kinds, pcs)
                             /\ kinds \cap SponsorMine = {}
                             /\ pcs \cap SponsorPcs = {}
      BY <2>1, <2>2, Stepped
    <2> QED BY <2>2, <2>3, Framed
  <1>2. ASSUME NEW c \in Calls, SponsorNext(c)
        PROVE  \/ \E d : \/ UploadSponsorLogo(c, d)
                         \/ \E url : NoUpload(c, d, url)
               \/ \E status : WriteSponsor(c, status)
               \/ RefuseSponsor(c) \/ DeleteReplacedLogo(c)
    BY <1>2, Zenon DEF SponsorNext
  <1> QED
    BY <1>1, <1>2, SponsorFramed, SponsorUpload, SponsorWrite, SponsorCommit,
       SponsorNoUpload, Zenon

\* The public sees what was decided, of any number of reports, sponsors and
\* applications, whichever calls come between the steps of others.
THEOREM PublicationsAreTold == PlatformSpec => []PublicationsTold
  <1> DEFINE Inv == Shapes /\ TwinInv /\ SponsorInv /\ BrandInv
  <1>1. DocumentsInit => Inv
    <2> SUFFICES ASSUME DocumentsInit
                 PROVE  Inv
      OBVIOUS
    <2>1. \A k : Kind(k) = {}
      BY DEF DocumentsInit, Kind
    <2>2. \A c \in Calls : call[c].pc = "idle"
      BY DEF DocumentsInit, Idle
    <2>3. \A k : Numbered(k)
      BY <2>1, FS_EmptySet DEF Numbered
    <2>4. Shapes
      BY IdleShape DEF DocumentsInit, Shapes, Kind
    <2>5. TwinInv
      BY <2>1, <2>3, FS_EmptySet DEF TwinInv
    <2>6. SponsorInv
      BY <2>1, <2>2, <2>3 DEF SponsorInv, HasUpload, HasDeletion
    <2>7. BrandInv
      BY <2>1, <2>3 DEF BrandInv, BrandsApproved
    <2> QED BY <2>4, <2>5, <2>6, <2>7
  <1>2. Inv /\ [PlatformNext]_documentVars => Inv'
    BY ShapesStep, TwinStep, SponsorStep, BrandStep
  <1>3. Inv => PublicationsTold
    BY TwinMeans, SponsorMeans DEF BrandInv, PublicationsTold
  <1> QED BY <1>1, <1>2, <1>3, PTL DEF PlatformSpec

-----------------------------------------------------------------------------
(* Product codes and their scans.                                          *)

TraceMine == TraceabilityKinds

SuspiciousOf(d) == {x \in ScansOf(d) : document[x].suspicious}

\* A code counts its scans, which bear the numbers up to its count.
CodeIs(d) ==
    LET x == document[d] IN
    /\ DOMAIN x = {"status", "scanCount", "suspiciousScanCount", "platform",
                   "source"}
    /\ x.scanCount \in Nat /\ x.suspiciousScanCount \in Nat
    /\ Cardinality(ScansOf(d)) = x.scanCount
    /\ {document[s].number : s \in ScansOf(d)} = 1 .. x.scanCount
    /\ Cardinality(SuspiciousOf(d)) = x.suspiciousScanCount

\* A scan has no case, or one that there is.
ScanIs(s) ==
    LET x == document[s] IN
    /\ DOMAIN x = {"found", "code", "number", "suspicious", "review", "case",
                   "version"}
    /\ x.code = <<>> \/ x.code \in Kind("productCode")
    /\ x.case = <<>> \/ x.case \in Kind("traceabilityCase")
    /\ x.number >= 3 => x.suspicious

CaseIs(y) ==
    LET s == document[y].scan IN
    s \in Kind("scan") /\ document[s].case = y

TraceInv ==
    /\ Numbered("productCode") /\ Numbered("scan")
    /\ Numbered("traceabilityCase")
    /\ \A d \in Kind("productCode") : CodeIs(d)
    /\ \A s \in Kind("scan") : ScanIs(s)
    /\ \A y \in Kind("traceabilityCase") : CaseIs(y)

LEMMA TraceMeans ==
  ASSUME TraceInv
  PROVE  ScansCounted
  BY DEF TraceInv, CodeIs, ScanIs, CaseIs, ScansCounted, SuspiciousOf

\* What is left alone.
LEMMA TraceFramed ==
  ASSUME Shapes, Shapes', TraceInv, Frame(TraceMine, {})
  PROVE  TraceInv'
  <1>1. /\ Kind("productCode")' = Kind("productCode")
        /\ Kind("scan")' = Kind("scan")
        /\ Kind("traceabilityCase")' = Kind("traceabilityCase")
    BY TraceabilityNames DEF Frame, TraceMine
  <1>2. \A d \in Kind("productCode") \cup Kind("scan")
                   \cup Kind("traceabilityCase") :
          document'[d] = document[d]
    BY KindIs, TraceabilityNames DEF Frame, Same, Kind, TraceMine
  <1>3. /\ Numbered("productCode")' /\ Numbered("scan")'
        /\ Numbered("traceabilityCase")'
    BY <1>1 DEF TraceInv, Numbered
  <1>4. \A d : ScansOf(d)' = ScansOf(d) /\ SuspiciousOf(d)' = SuspiciousOf(d)
    BY <1>1, <1>2 DEF ScansOf, SuspiciousOf
  <1>5. ASSUME NEW d \in Kind("productCode")
        PROVE  CodeIs(d)'
    <2>1. {document'[s].number : s \in ScansOf(d)}
            = {document[s].number : s \in ScansOf(d)}
      BY <1>2 DEF ScansOf
    <2> QED BY <1>2, <1>4, <2>1 DEF TraceInv, CodeIs
  <1>6. \A s \in Kind("scan") : ScanIs(s)'
    BY <1>1, <1>2 DEF TraceInv, ScanIs
  <1>7. \A y \in Kind("traceabilityCase") : CaseIs(y)'
    BY <1>1, <1>2 DEF TraceInv, CaseIs
  <1> QED BY <1>1, <1>3, <1>5, <1>6, <1>7 DEF TraceInv

\* A code is issued; it has no scans.
LEMMA TraceIssue ==
  ASSUME Shapes, Shapes', TraceInv, IssueProductCode(NextOf("productCode"))
  PROVE  TraceInv'
  <1>1. PICK a : /\ a = ProductCode(NextOf("productCode"))
                 /\ a = <<"productCode", NextOf("productCode")>>
                 /\ a \notin DOMAIN document /\ KindOf(a) = "productCode"
    BY NumberedNext, TraceabilityNames DEF TraceInv, ProductCode
  <1>2. PICK x : /\ x = [status |-> "active", scanCount |-> 0,
                         suspiciousScanCount |-> 0, platform |-> "",
                         source |-> ""]
                 /\ document' = a :> x @@ document
    BY <1>1 DEF IssueProductCode, Transact
  <1>3. /\ a \in DOMAIN document' /\ document'[a] = x
        /\ \A d : d # a => Same(d)
    BY <1>2, Write1
  <1>4. Kind("productCode")' = Kind("productCode") \cup {a}
    BY <1>1, <1>3, KindWith
  <1>5. Kind("scan")' = Kind("scan")
    BY <1>1, <1>3, KindSame
  <1>6. Kind("traceabilityCase")' = Kind("traceabilityCase")
    BY <1>1, <1>3, KindSame
  <1>7. \A d \in Kind("productCode") \cup Kind("scan")
                   \cup Kind("traceabilityCase") :
          document'[d] = document[d] /\ d # a
    BY <1>1, <1>3 DEF Same, Kind
  <1>8. /\ Numbered("productCode")' /\ Numbered("scan")'
        /\ Numbered("traceabilityCase")'
    BY <1>1, <1>4, <1>5, <1>6, NumberedAdded DEF TraceInv, Numbered
  <1>9. \A d : ScansOf(d)' = ScansOf(d) /\ SuspiciousOf(d)' = SuspiciousOf(d)
    BY <1>5, <1>7 DEF ScansOf, SuspiciousOf
  <1>10. ASSUME NEW d \in Kind("productCode")
         PROVE  CodeIs(d)'
    <2>1. {document'[s].number : s \in ScansOf(d)}
            = {document[s].number : s \in ScansOf(d)}
      BY <1>7 DEF ScansOf
    <2> QED BY <1>7, <1>9, <2>1 DEF TraceInv, CodeIs
  <1>11. CodeIs(a)'
    <2>1. a # <<>>
      BY <1>1
    <2>2. ScansOf(a) = {} /\ SuspiciousOf(a) = {}
      BY <1>7, <2>1 DEF TraceInv, ScanIs, ScansOf, SuspiciousOf
    <2>3. Cardinality({}) = 0
      BY FS_EmptySet
    <2>4. ScansOf(a)' = {} /\ SuspiciousOf(a)' = {}
      BY <1>9, <2>2
    <2>5. 1 .. 0 = {} /\ {document'[s].number : s \in {}} = {}
      OBVIOUS
    <2>6. /\ DOMAIN x = {"status", "scanCount", "suspiciousScanCount",
                         "platform", "source"}
          /\ x.scanCount = 0 /\ x.suspiciousScanCount = 0
      BY <1>2
    <2> QED BY <1>3, <2>3, <2>4, <2>5, <2>6 DEF CodeIs
  <1>12. \A s \in Kind("scan") : ScanIs(s)'
    BY <1>4, <1>6, <1>7 DEF TraceInv, ScanIs
  <1>13. \A y \in Kind("traceabilityCase") : CaseIs(y)'
    BY <1>5, <1>7 DEF TraceInv, CaseIs
  <1> QED BY <1>4, <1>5, <1>6, <1>8, <1>10, <1>11, <1>12, <1>13 DEF TraceInv

LEMMA TraceStatus ==
  ASSUME Shapes, Shapes', TraceInv, NEW d \in Kind("productCode"), NEW status,
         SetCodeStatus(d, status)
  PROVE  TraceInv'
  <1>1. /\ KindOf(d) = "productCode" /\ d \in DOMAIN document
        /\ DOMAIN document[d] = {"status", "scanCount", "suspiciousScanCount",
                                 "platform", "source"}
    BY KindIs DEF TraceInv, CodeIs, Kind
  <1>2. PICK x : /\ x = [document[d] EXCEPT !.status = status]
                 /\ document' = d :> x @@ document
    BY DEF SetCodeStatus, Transact
  <1>3. /\ DOMAIN x = DOMAIN document[d] /\ x.scanCount = document[d].scanCount
        /\ x.suspiciousScanCount = document[d].suspiciousScanCount
    BY <1>1, <1>2
  <1>4. /\ d \in DOMAIN document' /\ document'[d] = x
        /\ \A e : e # d => Same(e)
    BY <1>2, Write1
  <1>5. Kind("productCode")' = Kind("productCode")
    BY <1>1, <1>4, KindWith
  <1>6. Kind("scan")' = Kind("scan")
    BY <1>1, <1>4, KindSame
  <1>7. Kind("traceabilityCase")' = Kind("traceabilityCase")
    BY <1>1, <1>4, KindSame
  <1>8. /\ \A e \in Kind("scan") \cup Kind("traceabilityCase") :
             document'[e] = document[e]
        /\ \A e \in Kind("productCode") \ {d} : document'[e] = document[e]
    BY <1>1, <1>4, KindIs DEF Same, Kind
  <1>9. /\ Numbered("productCode")' /\ Numbered("scan")'
        /\ Numbered("traceabilityCase")'
    BY <1>5, <1>6, <1>7 DEF TraceInv, Numbered
  <1>10. \A e : ScansOf(e)' = ScansOf(e) /\ SuspiciousOf(e)' = SuspiciousOf(e)
    BY <1>6, <1>8 DEF ScansOf, SuspiciousOf
  <1>11. ASSUME NEW e \in Kind("productCode")
         PROVE  CodeIs(e)'
    <2>1. {document'[s].number : s \in ScansOf(e)}
            = {document[s].number : s \in ScansOf(e)}
      BY <1>8 DEF ScansOf
    <2>2. /\ DOMAIN document'[e] = DOMAIN document[e]
          /\ document'[e].scanCount = document[e].scanCount
          /\ document'[e].suspiciousScanCount = document[e].suspiciousScanCount
      BY <1>3, <1>4, <1>8
    <2>3. CodeIs(e)
      BY DEF TraceInv
    <2> QED BY <1>10, <2>1, <2>2, <2>3 DEF CodeIs
  <1>12. \A s \in Kind("scan") : ScanIs(s)'
    BY <1>5, <1>7, <1>8 DEF TraceInv, ScanIs
  <1>13. \A y \in Kind("traceabilityCase") : CaseIs(y)'
    BY <1>6, <1>8 DEF TraceInv, CaseIs
  <1> QED BY <1>5, <1>6, <1>7, <1>9, <1>11, <1>12, <1>13 DEF TraceInv

LEMMA TraceUnknown ==
  ASSUME Shapes, Shapes', TraceInv, VerifyUnknownCode
  PROVE  TraceInv'
  <1>1. PICK a : /\ a = Scan(NextOf("scan"))
                 /\ a = <<"scan", NextOf("scan")>>
                 /\ a \notin DOMAIN document /\ KindOf(a) = "scan"
    BY NumberedNext, TraceabilityNames DEF TraceInv, Scan
  <1>2. PICK x : /\ x = [found |-> FALSE, code |-> <<>>, number |-> 0,
                         suspicious |-> TRUE, review |-> "pending",
                         case |-> <<>>, version |-> 1]
                 /\ document' = a :> x @@ document
    BY <1>1 DEF VerifyUnknownCode, Transact
  <1>3. /\ a \in DOMAIN document' /\ document'[a] = x
        /\ \A d : d # a => Same(d)
    BY <1>2, Write1
  <1>4. Kind("scan")' = Kind("scan") \cup {a}
    BY <1>1, <1>3, KindWith
  <1>5. Kind("productCode")' = Kind("productCode")
    BY <1>1, <1>3, KindSame
  <1>6. Kind("traceabilityCase")' = Kind("traceabilityCase")
    BY <1>1, <1>3, KindSame
  <1>7. \A d \in Kind("productCode") \cup Kind("scan")
                   \cup Kind("traceabilityCase") :
          document'[d] = document[d] /\ d # a
    BY <1>1, <1>3 DEF Same, Kind
  <1>8. /\ Numbered("productCode")' /\ Numbered("scan")'
        /\ Numbered("traceabilityCase")'
    BY <1>1, <1>4, <1>5, <1>6, NumberedAdded DEF TraceInv, Numbered
  <1>9. \A d \in Kind("productCode") :
          ScansOf(d)' = ScansOf(d) /\ SuspiciousOf(d)' = SuspiciousOf(d)
    BY <1>2, <1>3, <1>4, <1>7, KindIs
    DEF ScansOf, SuspiciousOf, Shapes, Proper, Kind
  <1>10. ASSUME NEW d \in Kind("productCode")
         PROVE  CodeIs(d)'
    <2>1. {document'[s].number : s \in ScansOf(d)}
            = {document[s].number : s \in ScansOf(d)}
      BY <1>7 DEF ScansOf
    <2> QED BY <1>7, <1>9, <2>1 DEF TraceInv, CodeIs
  <1>11. \A s \in Kind("scan") \cup {a} : ScanIs(s)'
    BY <1>2, <1>3, <1>5, <1>6, <1>7 DEF TraceInv, ScanIs
  <1>12. \A y \in Kind("traceabilityCase") : CaseIs(y)'
    BY <1>4, <1>7 DEF TraceInv, CaseIs
  <1> QED BY <1>4, <1>5, <1>6, <1>8, <1>10, <1>11, <1>12 DEF TraceInv

\* From the third scan on the volume alone is suspicious.
LEMMA ThirdIsSuspicious ==
  ASSUME NEW code, NEW count \in Nat, count >= 3, NEW platform, NEW source,
         NEW rapid, NEW status
  PROVE  Suspicious(status, riskScore(code, count, platform, source, rapid))
  <1> DEFINE changed == IF count > 1 /\ code.platform # platform THEN 10 ELSE 0
             moved == IF count > 1 /\ code.source # source THEN 5 ELSE 0
             repeated == IF count > 1 /\ rapid THEN 25 ELSE 0
             points == StatusPoints(code.status) + VolumePoints(count)
                         + repeated + changed + moved
  <1>1. StatusPoints(code.status) \in Nat
    BY DEF StatusPoints
  <1>2. VolumePoints(count) \in Nat /\ VolumePoints(count) >= 20
    BY DEF VolumePoints
  <1>3. changed \in Nat /\ moved \in Nat /\ repeated \in Nat
    OBVIOUS
  <1>4. riskScore(code, count, platform, source, rapid)
          = IF points > 100 THEN 100 ELSE points
    BY DEF riskScore
  <1> HIDE DEF changed, moved, repeated
  <1>5. points \in Nat /\ points >= 20
    BY <1>1, <1>2, <1>3
  <1> HIDE DEF points
  <1> QED BY <1>4, <1>5 DEF Suspicious

\* The scan of a code is its next.
LEMMA TraceVerify ==
  ASSUME Shapes, Shapes', TraceInv, NEW d \in Kind("productCode"),
         NEW platform, NEW source, NEW rapid,
         VerifyProductCode(d, platform, source, rapid)
  PROVE  TraceInv'
  <1>1. /\ KindOf(d) = "productCode" /\ d \in DOMAIN document /\ CodeIs(d)
        /\ d # <<>>
    BY KindIs DEF TraceInv, Kind, Shapes, Proper
  <1>2. PICK a : /\ a = Scan(NextOf("scan"))
                 /\ a = <<"scan", NextOf("scan")>>
                 /\ a \notin DOMAIN document /\ KindOf(a) = "scan"
    BY NumberedNext, TraceabilityNames DEF TraceInv, Scan
  <1>a. PICK count : count = document[d].scanCount + 1
    OBVIOUS
  <1>3. PICK suspicious :
          suspicious = Suspicious(document[d].status,
               riskScore(document[d], count, platform, source, rapid))
    OBVIOUS
  <1>4. PICK x, y :
          /\ x = [document[d] EXCEPT
                    !.scanCount = count,
                    !.suspiciousScanCount = @ + IF suspicious THEN 1 ELSE 0,
                    !.platform = platform, !.source = source]
          /\ y = [found |-> TRUE, code |-> d, number |-> count,
                  suspicious |-> suspicious,
                  review |-> IF suspicious THEN "pending" ELSE "not_required",
                  case |-> <<>>, version |-> 1]
          /\ document' = d :> x @@ a :> y @@ document
    BY <1>a, <1>2, <1>3, Zenon DEF VerifyProductCode, Transact
  <1>5. /\ DOMAIN x = DOMAIN document[d] /\ x.scanCount = count
        /\ x.suspiciousScanCount = document[d].suspiciousScanCount
                                     + IF suspicious THEN 1 ELSE 0
    BY <1>1, <1>4 DEF CodeIs
  <1>6. /\ count \in Nat /\ count = document[d].scanCount + 1
        /\ count >= 3 => suspicious
    <2>1. count \in Nat
      BY <1>a, <1>1 DEF CodeIs
    <2>2. count >= 3 => suspicious
      BY <1>3, <2>1, ThirdIsSuspicious, Zenon
    <2> QED BY <1>a, <2>1, <2>2
  <1>7. /\ d \in DOMAIN document' /\ document'[d] = x
        /\ a \in DOMAIN document' /\ document'[a] = y
        /\ \A e : e # d /\ e # a => Same(e)
    <2>1. a # d /\ document' = d :> x @@ a :> y @@ document
      BY <1>1, <1>2, <1>4
    <2> QED BY <2>1, Write2
  <1>8. Kind("productCode")' = Kind("productCode")
    BY <1>1, <1>2, <1>7, KindWith, SMTT(30)
  <1>9. Kind("scan")' = Kind("scan") \cup {a}
    BY <1>1, <1>2, <1>7, KindWith
  <1>10. Kind("traceabilityCase")' = Kind("traceabilityCase")
    BY <1>1, <1>2, <1>7, KindSame
  <1>11. /\ \A e \in Kind("scan") \cup Kind("traceabilityCase") :
              document'[e] = document[e] /\ e # a
         /\ \A e \in Kind("productCode") \ {d} : document'[e] = document[e]
    BY <1>1, <1>2, <1>7, KindIs DEF Same, Kind
  <1>12. /\ Numbered("productCode")' /\ Numbered("scan")'
         /\ Numbered("traceabilityCase")'
    BY <1>2, <1>8, <1>9, <1>10, NumberedAdded DEF TraceInv, Numbered
  <1>13. /\ y.code = d /\ y.number = count /\ y.suspicious = suspicious
         /\ y.case = <<>>
    BY <1>4
  <1>14. ASSUME NEW e \in Kind("productCode") \ {d}
         PROVE  CodeIs(e)'
    <2>1. ScansOf(e)' = ScansOf(e) /\ SuspiciousOf(e)' = SuspiciousOf(e)
      BY <1>7, <1>9, <1>11, <1>13 DEF ScansOf, SuspiciousOf
    <2>2. {document'[s].number : s \in ScansOf(e)}
            = {document[s].number : s \in ScansOf(e)}
      BY <1>11 DEF ScansOf
    <2>3. CodeIs(e) /\ document'[e] = document[e]
      BY <1>11 DEF TraceInv
    <2> QED BY <2>1, <2>2, <2>3 DEF CodeIs
  <1>15. CodeIs(d)'
    <2> DEFINE S == ScansOf(d)
               U == SuspiciousOf(d)
    <2>1. ScansOf(d)' = S \cup {a}
      BY <1>7, <1>9, <1>11, <1>13 DEF ScansOf
    <2>2. SuspiciousOf(d)' = U \cup (IF suspicious THEN {a} ELSE {})
      BY <1>7, <1>9, <1>11, <1>13 DEF ScansOf, SuspiciousOf
    <2>3. IsFiniteSet(S) /\ IsFiniteSet(U) /\ a \notin S /\ a \notin U
      <3>1. S \subseteq Kind("scan") /\ U \subseteq Kind("scan")
        BY DEF ScansOf, SuspiciousOf
      <3> QED BY <1>11, <3>1, FS_Subset DEF TraceInv, Numbered
    <2>4. {document'[s].number : s \in S \cup {a}} = 1 .. count
      <3>1. {document'[s].number : s \in S \cup {a}}
              = {document[s].number : s \in S} \cup {count}
        BY <1>7, <1>11, <1>13 DEF ScansOf
      <3>2. {document[s].number : s \in S} = 1 .. document[d].scanCount
        BY <1>1 DEF CodeIs
      <3>3. 1 .. count = (1 .. document[d].scanCount) \cup {count}
        BY <1>1, <1>6 DEF CodeIs
      <3> QED BY <3>1, <3>2, <3>3
    <2>5. Cardinality(S) = document[d].scanCount
          /\ Cardinality(U) = document[d].suspiciousScanCount
          /\ document[d].suspiciousScanCount \in Nat
      BY <1>1 DEF CodeIs
    <2> HIDE DEF S, U
    <2>6. Cardinality(S \cup {a}) = count
      BY <1>6, <2>3, <2>5, FS_AddElement
    <2>7. Cardinality(U \cup (IF suspicious THEN {a} ELSE {}))
            = x.suspiciousScanCount
      <3>1. Cardinality(U \cup {a}) = Cardinality(U) + 1
        BY <2>3, FS_AddElement
      <3>2. U \cup {} = U
        OBVIOUS
      <3>3. CASE suspicious
        BY <1>5, <2>5, <3>1, <3>3
      <3>4. CASE ~suspicious
        BY <1>5, <2>5, <3>2, <3>4
      <3> QED BY <3>3, <3>4
    <2>8. x.suspiciousScanCount \in Nat
      BY <1>5, <2>5
    <2> QED BY <1>1, <1>5, <1>6, <1>7, <2>1, <2>2, <2>4, <2>6, <2>7, <2>8 DEF CodeIs
  <1>16. \A s \in Kind("scan") : ScanIs(s)'
    BY <1>8, <1>10, <1>11 DEF TraceInv, ScanIs
  <1>17. ScanIs(a)'
    BY <1>4, <1>6, <1>7, <1>8, <1>13 DEF ScanIs
  <1>18. \A e \in Kind("traceabilityCase") : CaseIs(e)'
    BY <1>9, <1>11 DEF TraceInv, CaseIs
  <1> QED BY <1>8, <1>9, <1>10, <1>12, <1>14, <1>15, <1>16, <1>17, <1>18 DEF TraceInv

\* A review, with the case that the scan has, or with its first.
LEMMA TraceReview ==
  ASSUME Shapes, Shapes', TraceInv, NEW d \in Kind("scan"),
         \/ \E review : ReviewSuspiciousVerificationScan(d, review)
         \/ CreateTraceabilityCaseFromScan(d)
  PROVE  TraceInv'
  <1>1. /\ KindOf(d) = "scan" /\ d \in DOMAIN document /\ ScanIs(d)
    BY KindIs DEF TraceInv, Kind
  <1>2. PICK a : /\ a = TraceabilityCase(NextOf("traceabilityCase"))
                 /\ a = <<"traceabilityCase", NextOf("traceabilityCase")>>
                 /\ a \notin DOMAIN document /\ KindOf(a) = "traceabilityCase"
                 /\ a # <<>>
    BY NumberedNext, TraceabilityNames DEF TraceInv, TraceabilityCase
  <1>3. PICK review, case, x :
          /\ x = [document[d] EXCEPT !.review = review, !.case = case,
                                     !.version = @ + 1]
          /\ \/ /\ case = document[d].case
                /\ document' = d :> x @@ document
             \/ /\ case = a /\ ~Exists(document[d].case)
                /\ document' = a :> [scan |-> d, status |-> "open"]
                                 @@ d :> x @@ document
    <2>1. CASE \E review : ReviewSuspiciousVerificationScan(d, review)
      BY <2>1 DEF ReviewSuspiciousVerificationScan, Reviewed, Transact
    <2>2. CASE CreateTraceabilityCaseFromScan(d)
      BY <1>2, <2>2
      DEF CreateTraceabilityCaseFromScan, Reviewed, Transact, Uncased
    <2> QED BY <2>1, <2>2
  <1>4. /\ DOMAIN x = DOMAIN document[d] /\ x.code = document[d].code
        /\ x.number = document[d].number
        /\ x.suspicious = document[d].suspicious /\ x.case = case
    BY <1>1, <1>3 DEF ScanIs
  <1>5. case = a => document[d].case = <<>>
    BY <1>1, <1>2, <1>3 DEF ScanIs, Exists, Kind
  <1>6. /\ d \in DOMAIN document' /\ document'[d] = x
        /\ case = a => a \in DOMAIN document' /\ document'[a].scan = d
        /\ case # a => Same(a)
        /\ \A e : e # d /\ e # a => Same(e)
    <2>1. ASSUME case # a
          PROVE  /\ d \in DOMAIN document' /\ document'[d] = x
                 /\ \A e : e # d => Same(e)
      BY <1>3, <2>1, Write1
    <2>2. ASSUME case = a
          PROVE  /\ d \in DOMAIN document' /\ document'[d] = x
                 /\ a \in DOMAIN document' /\ document'[a].scan = d
                 /\ \A e : e # d /\ e # a => Same(e)
      <3>1. document' = a :> [scan |-> d, status |-> "open"]
                                 @@ d :> x @@ document
        BY <1>1, <1>2, <1>3, <2>2 DEF ScanIs, Kind
      <3>2. a # d
        BY <1>1, <1>2
      <3> QED BY <3>1, <3>2, Write2
    <2>3. a # d
      BY <1>1, <1>2
    <2> QED BY <2>1, <2>2, <2>3
  <1>7. Kind("productCode")' = Kind("productCode")
    BY <1>1, <1>2, <1>6, KindSame
  <1>8. Kind("scan")' = Kind("scan")
    BY <1>1, <1>2, <1>6, KindWith
  <1>9. /\ case # a => Kind("traceabilityCase")' = Kind("traceabilityCase")
        /\ case = a => Kind("traceabilityCase")'
                         = Kind("traceabilityCase") \cup {a}
    BY <1>1, <1>2, <1>6, KindWith, KindSame
  <1>10. /\ \A e \in Kind("productCode") \cup Kind("traceabilityCase") :
              document'[e] = document[e]
         /\ \A e \in Kind("scan") \ {d} : document'[e] = document[e]
    BY <1>1, <1>2, <1>6, KindIs DEF Same, Kind
  <1>11. /\ Numbered("productCode")' /\ Numbered("scan")'
    BY <1>7, <1>8 DEF TraceInv, Numbered
  <1>12. Numbered("traceabilityCase")'
    <2>1. CASE case = a
      BY <1>2, <1>9, <2>1, NumberedAdded DEF TraceInv
    <2>2. CASE case # a
      BY <1>9, <2>2 DEF TraceInv, Numbered
    <2> QED BY <2>1, <2>2
  <1>13. \A s \in Kind("scan") : /\ document'[s].code = document[s].code
                                 /\ document'[s].number = document[s].number
                                 /\ document'[s].suspicious = document[s].suspicious
    BY <1>4, <1>6, <1>10
  <1>14. \A e : ScansOf(e)' = ScansOf(e) /\ SuspiciousOf(e)' = SuspiciousOf(e)
    BY <1>8, <1>13 DEF ScansOf, SuspiciousOf
  <1>15. ASSUME NEW e \in Kind("productCode")
         PROVE  CodeIs(e)'
    <2>1. {document'[s].number : s \in ScansOf(e)}
            = {document[s].number : s \in ScansOf(e)}
      BY <1>13 DEF ScansOf
    <2>2. CodeIs(e) /\ document'[e] = document[e]
      BY <1>10 DEF TraceInv
    <2> QED BY <1>14, <2>1, <2>2 DEF CodeIs
  <1>16. \A s \in Kind("scan") \ {d} : ScanIs(s)'
    BY <1>7, <1>9, <1>10 DEF TraceInv, ScanIs
  <1>17. ScanIs(d)'
    BY <1>1, <1>3, <1>4, <1>6, <1>7, <1>9 DEF ScanIs
  <1>18. \A e \in Kind("traceabilityCase") : CaseIs(e)'
    <2> TAKE e \in Kind("traceabilityCase")
    <2>1. document'[e] = document[e] /\ CaseIs(e)
      BY <1>10 DEF TraceInv
    <2>2. ASSUME document[e].scan = d
          PROVE  case = e
      <3>1. document[d].case = e /\ e # <<>> /\ Exists(e)
        BY <2>1, <2>2 DEF CaseIs, Kind, Shapes, Proper, Exists
      <3> QED BY <1>3, <1>5, <3>1
    <2> QED BY <1>4, <1>6, <1>8, <1>10, <2>1, <2>2 DEF CaseIs
  <1>19. case = a => CaseIs(a)'
    BY <1>4, <1>6, <1>8 DEF CaseIs
  <1> QED BY <1>7, <1>8, <1>9, <1>11, <1>12, <1>15, <1>16, <1>17, <1>18, <1>19 DEF TraceInv

LEMMA TraceStep ==
  ASSUME Shapes, Shapes', TraceInv, [PlatformNext]_documentVars
  PROVE  TraceInv'
  <1>1. TraceabilityNext \/ Frame(TraceMine, {})
    <2>1. \A kinds \in {WorkspaceKinds, DetectiveKinds, RiskKinds, CasesKinds,
                        UploadsKinds, LaboratoriesKinds, SponsorKinds,
                        TwinsKinds, PriorityKinds, SupplyKinds, BrandKinds, {}} :
            kinds \cap TraceMine = {}
      BY DEF WorkspaceKinds, DetectiveKinds, RiskKinds, CasesKinds, UploadsKinds,
         LaboratoriesKinds, SponsorKinds, TwinsKinds, PriorityKinds,
         SupplyKinds, BrandKinds, TraceMine, TraceabilityKinds
    <2>2. TraceabilityNext \/ \E kinds, pcs : /\ Touches(kinds, pcs)
                                              /\ kinds \cap TraceMine = {}
      BY <2>1, Stepped
    <2> QED BY <2>2, Framed
  <1>2. ASSUME TraceabilityNext
        PROVE  \/ IssueProductCode(NextOf("productCode"))
               \/ \E d \in Kind("productCode") :
                    \/ \E status : SetCodeStatus(d, status)
                    \/ \E platform, source, rapid :
                         VerifyProductCode(d, platform, source, rapid)
               \/ VerifyUnknownCode
               \/ \E d \in Kind("scan") :
                    \/ \E review : ReviewSuspiciousVerificationScan(d, review)
                    \/ CreateTraceabilityCaseFromScan(d)
    BY <1>2, Zenon DEF TraceabilityNext
  <1> QED
    BY <1>1, <1>2, TraceFramed, TraceIssue, TraceStatus, TraceUnknown,
       TraceVerify, TraceReview, Zenon

\* Scans are counted, of any number of codes and scans.
THEOREM ScansAreCounted == PlatformSpec => []ScansCounted
  <1> DEFINE Inv == Shapes /\ TraceInv
  <1>1. DocumentsInit => Inv
    <2> SUFFICES ASSUME DocumentsInit
                 PROVE  Inv
      OBVIOUS
    <2>1. \A k : Kind(k) = {}
      BY DEF DocumentsInit, Kind
    <2>2. \A k : Numbered(k)
      BY <2>1, FS_EmptySet DEF Numbered
    <2>3. Shapes
      BY IdleShape DEF DocumentsInit, Shapes, Kind
    <2> QED BY <2>1, <2>2, <2>3 DEF TraceInv
  <1>2. Inv /\ [PlatformNext]_documentVars => Inv'
    BY ShapesStep, TraceStep
  <1>3. Inv => ScansCounted
    BY TraceMeans
  <1> QED BY <1>1, <1>2, <1>3, PTL DEF PlatformSpec

-----------------------------------------------------------------------------
(* Creations and their versions.                                           *)

Numbers(d) == {document[v].number : v \in VersionsOf(d)}

\* A version that is sealed bears its hash; one that is not is the first.
VersionIs(v) ==
    LET x == document[v] IN
    /\ DOMAIN x = {"creation", "number", "content", "seal", "previous",
                   "previousHash", "hash"}
    /\ x.creation \in Kind("creation") /\ x.number \in Nat
    /\ x.seal = "sealed" <=> x.hash # NoHash
    /\ x.seal = "sealed" =>
         x.hash = versionHash(x.creation, x.number, x.content,
                              x.previous, x.previousHash)
    /\ x.number = 1 => x.previous = <<>> /\ x.previousHash = NoHash
    /\ x.number > 1 =>
         /\ x.previous \in VersionsOf(x.creation)
         /\ document[x.previous].number = x.number - 1
         /\ document[x.previous].hash = x.previousHash
         /\ x.previousHash # NoHash

CreationIs(d) ==
    LET x == document[d] IN
    /\ DOMAIN x = {"code", "status", "seal", "current", "active"}
    /\ x.current \in Nat
    /\ Cardinality(VersionsOf(d)) = x.current
    /\ Numbers(d) = 1 .. x.current
    /\ x.active \in VersionsOf(d) /\ document[x.active].number = x.current
    /\ \A e \in Kind("creation") : document[e].code = x.code => e = d

OwnerIs(u) ==
    /\ u = OwnerIdentity(u[2])
    /\ OwnerNumber(document[u].number) \in DOMAIN document
    /\ document[OwnerNumber(document[u].number)].owner = u[2]

PriorityInv ==
    /\ Numbered("creation") /\ Numbered("creationVersion")
    /\ \A v \in Kind("creationVersion") : VersionIs(v)
    /\ \A d \in Kind("creation") : CreationIs(d)
    /\ \A u \in Kind("registryOwner") : OwnerIs(u)

LEMMA PriorityMeans ==
  ASSUME PriorityInv
  PROVE  PriorityChained
  <1>1. ASSUME NEW v \in Kind("creationVersion")
        PROVE  LET x == document[v] IN
               /\ x.seal = "sealed" <=> x.hash # NoHash
               /\ x.seal = "sealed" =>
                    x.hash = versionHash(x.creation, x.number, x.content,
                                         x.previous, x.previousHash)
               /\ x.number > 1 =>
                    /\ document[x.previous].creation = x.creation
                    /\ document[x.previous].number = x.number - 1
                    /\ document[x.previous].hash = x.previousHash
    BY DEF PriorityInv, VersionIs, VersionsOf
  <1>2. ASSUME NEW d \in Kind("creation")
        PROVE  /\ Cardinality(VersionsOf(d)) = document[d].current
               /\ {document[v].number : v \in VersionsOf(d)}
                    = 1 .. document[d].current
               /\ document[document[d].active].number = document[d].current
               /\ document[d].active \in VersionsOf(d)
    BY DEF PriorityInv, CreationIs, Numbers
  <1>3. \A x, y \in Kind("creation") :
          document[x].code = document[y].code => x = y
    BY DEF PriorityInv, CreationIs
  <1>4. \A u \in Kind("registryOwner") :
          document[OwnerNumber(document[u].number)].owner = u[2]
    BY DEF PriorityInv, OwnerIs
  <1> QED BY <1>1, <1>2, <1>3, <1>4 DEF PriorityChained

\* A version whose record's versions keep number and hash, and a record whose
\* versions keep their number.
LEMMA VersionStays ==
  ASSUME NEW v, VersionIs(v), document'[v] = document[v],
         Kind("creation") \subseteq Kind("creation")',
         LET d == document[v].creation IN
         /\ VersionsOf(d) \subseteq VersionsOf(d)'
         /\ \A w \in VersionsOf(d) : /\ document'[w].number = document[w].number
                                    /\ document'[w].hash = document[w].hash
  PROVE  VersionIs(v)'
  BY DEF VersionIs

LEMMA CreationStays ==
  ASSUME NEW d, CreationIs(d), DOMAIN document'[d] = DOMAIN document[d],
         document'[d].code = document[d].code,
         document'[d].current = document[d].current,
         document'[d].active = document[d].active,
         VersionsOf(d)' = VersionsOf(d),
         \A w \in VersionsOf(d) : document'[w].number = document[w].number,
         \A e \in Kind("creation")' :
           document'[e].code = document[d].code => e = d
  PROVE  CreationIs(d)'
  <1>1. Numbers(d)' = Numbers(d)
    BY DEF Numbers
  <1> QED BY <1>1 DEF CreationIs

\* Owners are left alone by what adds no number.
LEMMA OwnersKept ==
  ASSUME Shapes, Shapes', PriorityInv,
         \A d : KindOf(d) \in {"registryOwner", "ownerNumber"} => Same(d)
  PROVE  /\ Kind("registryOwner")' = Kind("registryOwner")
         /\ \A u \in Kind("registryOwner") : OwnerIs(u)'
  <1>1. /\ Kind("registryOwner")' = Kind("registryOwner")
        /\ \A u \in Kind("registryOwner") : document'[u] = document[u]
    BY KindKept
  <1>2. \A n : KindOf(OwnerNumber(n)) = "ownerNumber"
    BY PriorityNames
  <1>3. \A n : OwnerNumber(n) \in DOMAIN document =>
                 /\ OwnerNumber(n) \in DOMAIN document'
                 /\ document'[OwnerNumber(n)] = document[OwnerNumber(n)]
    BY <1>2 DEF Same
  <1> QED BY <1>1, <1>3 DEF PriorityInv, OwnerIs

LEMMA PriorityFramed ==
  ASSUME Shapes, Shapes', PriorityInv, Frame(PriorityKinds, {})
  PROVE  PriorityInv'
  <1>1. /\ Kind("creation")' = Kind("creation")
        /\ Kind("creationVersion")' = Kind("creationVersion")
    BY PriorityNames DEF Frame
  <1>2. \A d \in Kind("creation") \cup Kind("creationVersion") :
          document'[d] = document[d]
    BY KindIs, PriorityNames DEF Frame, Same, Kind
  <1>3. Numbered("creation")' /\ Numbered("creationVersion")'
    BY <1>1 DEF PriorityInv, Numbered
  <1>4. \A d : VersionsOf(d)' = VersionsOf(d)
    BY <1>1, <1>2 DEF VersionsOf
  <1>5. \A d : VersionsOf(d) \subseteq Kind("creationVersion")
    BY DEF VersionsOf
  <1>6. \A v \in Kind("creationVersion") : VersionIs(v)'
    BY <1>1, <1>2, <1>4, <1>5, VersionStays DEF PriorityInv
  <1>7. ASSUME NEW d \in Kind("creation")
        PROVE  CreationIs(d)'
    <2>1. CreationIs(d)
      BY DEF PriorityInv
    <2>2. \A e \in Kind("creation")' :
            document'[e].code = document[d].code => e = d
      BY <1>1, <1>2, <2>1 DEF CreationIs
    <2> QED BY <1>2, <1>4, <1>5, <2>1, <2>2, CreationStays
  <1>8. /\ Kind("registryOwner")' = Kind("registryOwner")
        /\ \A u \in Kind("registryOwner") : OwnerIs(u)'
    BY OwnersKept, PriorityNames DEF Frame
  <1> QED BY <1>1, <1>3, <1>6, <1>7, <1>8 DEF PriorityInv

\* The draft of a new creation, of a code that no other has.
LEMMA PriorityDraft ==
  ASSUME Shapes, Shapes', PriorityInv, NEW code, NEW content,
         CreateIpCreationPriorityDraft(code, content)
  PROVE  PriorityInv'
  <1>1. PICK a : /\ a = Creation(NextOf("creation"))
                 /\ a = <<"creation", NextOf("creation")>>
                 /\ a \notin DOMAIN document /\ KindOf(a) = "creation"
    BY NumberedNext, PriorityNames DEF PriorityInv, Creation
  <1>2. PICK b : /\ b = CreationVersion(NextOf("creationVersion"))
                 /\ b = <<"creationVersion", NextOf("creationVersion")>>
                 /\ b \notin DOMAIN document /\ KindOf(b) = "creationVersion"
    BY NumberedNext, PriorityNames DEF PriorityInv, CreationVersion
  <1>3. PICK x, y :
          /\ x = [code |-> code, status |-> "draft", seal |-> "unsealed",
                  current |-> 1, active |-> b]
          /\ y = [creation |-> a, number |-> 1, content |-> content,
                  seal |-> "unsealed", previous |-> <<>>,
                  previousHash |-> NoHash, hash |-> NoHash]
          /\ document' = a :> x @@ b :> y @@ document
    BY <1>1, <1>2 DEF CreateIpCreationPriorityDraft, Transact
  <1>4. /\ a \in DOMAIN document' /\ document'[a] = x
        /\ b \in DOMAIN document' /\ document'[b] = y
        /\ \A d : d # a /\ d # b => Same(d)
    <2>1. a # b /\ document' = a :> x @@ b :> y @@ document
      BY <1>1, <1>2, <1>3
    <2> QED BY <2>1, Write2
  <1>5. Kind("creation")' = Kind("creation") \cup {a}
    BY <1>1, <1>2, <1>4, KindWith
  <1>6. Kind("creationVersion")' = Kind("creationVersion") \cup {b}
    BY <1>1, <1>2, <1>4, KindWith
  <1>7. \A d \in Kind("creation") \cup Kind("creationVersion") :
          document'[d] = document[d] /\ d # a /\ d # b
    BY <1>1, <1>2, <1>4 DEF Same, Kind
  <1>8. Numbered("creation")' /\ Numbered("creationVersion")'
    BY <1>1, <1>2, <1>5, <1>6, NumberedAdded DEF PriorityInv
  <1>9. \A d \in Kind("creation") : VersionsOf(d)' = VersionsOf(d)
    BY <1>3, <1>4, <1>6, <1>7 DEF VersionsOf
  <1>10. \A d : VersionsOf(d) \subseteq Kind("creationVersion")
    BY DEF VersionsOf
  <1>11. ASSUME NEW v \in Kind("creationVersion")
         PROVE  VersionIs(v)'
    <2>1. VersionIs(v) /\ document[v].creation \in Kind("creation")
      BY DEF PriorityInv, VersionIs
    <2> QED BY <1>5, <1>7, <1>9, <1>10, <2>1, VersionStays
  <1>12. VersionIs(b)'
    BY <1>3, <1>4, <1>5 DEF VersionIs, NoHash
  <1>13. ~ \E d \in Kind("creation") : document[d].code = code
    BY DEF CreateIpCreationPriorityDraft, RecordCodeTaken
  <1>14. ASSUME NEW d \in Kind("creation")
         PROVE  CreationIs(d)'
    <2>1. CreationIs(d) /\ document'[d] = document[d]
      BY <1>7 DEF PriorityInv
    <2>2. document'[a].code = code
      BY <1>3, <1>4
    <2>3. \A e \in Kind("creation")' :
            document'[e].code = document[d].code => e = d
      BY <1>5, <1>7, <1>13, <2>1, <2>2 DEF CreationIs
    <2> QED BY <1>7, <1>9, <1>10, <2>1, <2>3, CreationStays
  <1>15. CreationIs(a)'
    <2>1. VersionsOf(a)' = {b}
      BY <1>3, <1>4, <1>6, <1>7 DEF VersionsOf, PriorityInv, VersionIs
    <2>2. Numbers(a)' = {1}
      BY <1>3, <1>4, <2>1 DEF Numbers
    <2>3. Cardinality({b}) = 1
      BY FS_Singleton
    <2>4. 1 .. 1 = {1}
      OBVIOUS
    <2> QED BY <1>3, <1>4, <1>5, <1>7, <1>13, <2>1, <2>2, <2>3, <2>4 DEF CreationIs
  <1>16. /\ Kind("registryOwner")' = Kind("registryOwner")
         /\ \A u \in Kind("registryOwner") : OwnerIs(u)'
    BY <1>1, <1>2, <1>4, OwnersKept
  <1> QED BY <1>5, <1>6, <1>8, <1>11, <1>12, <1>14, <1>15, <1>16 DEF PriorityInv

\* What changes a record and a version of it, but neither the record's code
\* and versions nor what others see of the version.
LEMMA PriorityKept ==
  ASSUME Shapes, Shapes', PriorityInv,
         NEW d \in Kind("creation"), NEW v \in Kind("creationVersion"),
         d \in DOMAIN document', v \in DOMAIN document',
         \A e : e # d /\ e # v => Same(e),
         DOMAIN document'[d] = DOMAIN document[d],
         document'[d].code = document[d].code,
         document'[d].current = document[d].current,
         document'[d].active = document[d].active,
         document'[v].creation = document[v].creation,
         document'[v].number = document[v].number,
         document'[v].hash = document[v].hash \/ document[v].hash = NoHash,
         Kind("creation")' = Kind("creation") => VersionIs(v)'
  PROVE  PriorityInv'
  <1>1. KindOf(d) = "creation" /\ KindOf(v) = "creationVersion"
    BY KindIs
  <1>2. Kind("creation")' = Kind("creation")
    BY <1>1, KindWith
  <1>3. Kind("creationVersion")' = Kind("creationVersion")
    BY <1>1, KindWith
  <1>4. /\ \A e \in Kind("creation") \ {d} : document'[e] = document[e]
        /\ \A e \in Kind("creationVersion") \ {v} : document'[e] = document[e]
    BY <1>1, KindIs DEF Same, Kind
  <1>5. Numbered("creation")' /\ Numbered("creationVersion")'
    BY <1>2, <1>3 DEF PriorityInv, Numbered
  <1>6. \A w \in Kind("creationVersion") :
          /\ document'[w].creation = document[w].creation
          /\ document'[w].number = document[w].number
          /\ document'[w].hash = document[w].hash \/ document[w].hash = NoHash
    BY <1>4
  <1>7. \A e : VersionsOf(e)' = VersionsOf(e)
    BY <1>3, <1>6 DEF VersionsOf
  <1>8. ASSUME NEW w \in Kind("creationVersion") \ {v}
        PROVE  VersionIs(w)'
    <2>1. document'[w] = document[w] /\ VersionIs(w)
      BY <1>4 DEF PriorityInv
    <2>2. document[w].number > 1 =>
            /\ document[w].previous \in Kind("creationVersion")
            /\ document'[document[w].previous].hash
                 = document[document[w].previous].hash
      BY <1>6, <2>1 DEF VersionIs, VersionsOf
    <2> QED BY <1>2, <1>6, <1>7, <2>1, <2>2 DEF VersionIs
  <1>9. ASSUME NEW e \in Kind("creation")
        PROVE  CreationIs(e)'
    <2>1. /\ DOMAIN document'[e] = DOMAIN document[e]
          /\ document'[e].current = document[e].current
          /\ document'[e].active = document[e].active
      BY <1>4
    <2>2. \A f \in Kind("creation") : document'[f].code = document[f].code
      BY <1>4
    <2>3. CreationIs(e)
      BY DEF PriorityInv
    <2>4. \A w \in VersionsOf(e) : document'[w].number = document[w].number
      BY <1>6 DEF VersionsOf
    <2>5. \A f \in Kind("creation")' :
            document'[f].code = document[e].code => f = e
      BY <1>2, <2>2, <2>3 DEF CreationIs
    <2> QED BY <1>7, <2>1, <2>2, <2>3, <2>4, <2>5, CreationStays
  <1>10. /\ Kind("registryOwner")' = Kind("registryOwner")
         /\ \A u \in Kind("registryOwner") : OwnerIs(u)'
    BY <1>1, OwnersKept
  <1> QED BY <1>2, <1>3, <1>5, <1>8, <1>9, <1>10 DEF PriorityInv

LEMMA PriorityUpdate ==
  ASSUME Shapes, Shapes', PriorityInv, NEW d \in Kind("creation"),
         NEW v \in Kind("creationVersion"), NEW content,
         UpdateIpCreationPriorityDraft(d, v, content)
  PROVE  PriorityInv'
  <1>1. /\ VersionIs(v) /\ d # v /\ d \in DOMAIN document
        /\ document[v].seal = "unsealed" /\ document[v].number = 1
    BY KindIs DEF PriorityInv, UpdateIpCreationPriorityDraft, UnsealedDraft, Kind
  <1>2. PICK y : /\ y = [document[v] EXCEPT !.content = content]
                 /\ document' = v :> y @@ document
    BY DEF UpdateIpCreationPriorityDraft, Transact
  <1>3. /\ v \in DOMAIN document' /\ document'[v] = y
        /\ \A e : e # v => Same(e)
    BY <1>2, Write1
  <1>4. /\ DOMAIN y = DOMAIN document[v] /\ y.creation = document[v].creation
        /\ y.number = document[v].number /\ y.seal = document[v].seal
        /\ y.previous = document[v].previous
        /\ y.previousHash = document[v].previousHash
        /\ y.hash = document[v].hash
    BY <1>1, <1>2 DEF VersionIs
  <1>5. d \in DOMAIN document' /\ document'[d] = document[d]
    BY <1>1, <1>3 DEF Same
  <1>6. Kind("creation")' = Kind("creation") => VersionIs(v)'
    BY <1>1, <1>3, <1>4 DEF VersionIs
  <1> QED BY <1>3, <1>4, <1>5, <1>6, PriorityKept

LEMMA PrioritySeal ==
  ASSUME Shapes, Shapes', PriorityInv, NEW d \in Kind("creation"),
         NEW v \in Kind("creationVersion"), SealIpCreationPriorityRecord(d, v)
  PROVE  PriorityInv'
  <1>1. /\ VersionIs(v) /\ CreationIs(d) /\ d # v
        /\ document[v].seal = "unsealed" /\ document[v].number = 1
        /\ document[v].creation = d
    BY KindIs DEF PriorityInv, SealIpCreationPriorityRecord, UnsealedDraft, Kind
  <1>2. PICK h : h = versionHash(d, 1, document[v].content, <<>>, NoHash)
    OBVIOUS
  <1>3. PICK x, y :
          /\ y = [document[v] EXCEPT !.seal = "sealed", !.hash = h]
          /\ x = [document[d] EXCEPT !.status = "sealed", !.seal = "sealed"]
          /\ document' = v :> y @@ d :> x @@ document
    BY <1>2 DEF SealIpCreationPriorityRecord, Transact
  <1>4. /\ v \in DOMAIN document' /\ document'[v] = y
        /\ d \in DOMAIN document' /\ document'[d] = x
        /\ \A e : e # v /\ e # d => Same(e)
    BY <1>1, <1>3, Write2
  <1>5. /\ DOMAIN y = DOMAIN document[v] /\ y.creation = document[v].creation
        /\ y.number = document[v].number /\ y.seal = "sealed"
        /\ y.content = document[v].content
        /\ y.previous = document[v].previous
        /\ y.previousHash = document[v].previousHash
        /\ y.hash = h
    BY <1>1, <1>3 DEF VersionIs
  <1>6. /\ DOMAIN x = DOMAIN document[d] /\ x.code = document[d].code
        /\ x.current = document[d].current /\ x.active = document[d].active
    BY <1>1, <1>3 DEF CreationIs
  <1>7. h # NoHash
    BY <1>2 DEF versionHash, NoHash
  <1>8. document[v].hash = NoHash
    BY <1>1 DEF VersionIs
  <1>9. Kind("creation")' = Kind("creation") => VersionIs(v)'
    BY <1>1, <1>2, <1>4, <1>5, <1>7 DEF VersionIs
  <1> QED BY <1>4, <1>5, <1>6, <1>8, <1>9, PriorityKept

LEMMA PriorityArchive ==
  ASSUME Shapes, Shapes', PriorityInv, NEW d \in Kind("creation"),
         ArchiveCreation(d)
  PROVE  PriorityInv'
  <1>1. CreationIs(d)
    BY DEF PriorityInv
  <1>2. PICK x : /\ x = [document[d] EXCEPT !.status = "archived"]
                 /\ document' = d :> x @@ document
    BY DEF ArchiveCreation, Transact
  <1>3. /\ d \in DOMAIN document' /\ document'[d] = x
        /\ \A e : e # d => Same(e)
    BY <1>2, Write1
  <1>4. /\ DOMAIN x = DOMAIN document[d] /\ x.code = document[d].code
        /\ x.current = document[d].current /\ x.active = document[d].active
    BY <1>1, <1>2 DEF CreationIs
  <1>5. PICK v : v = document[d].active
    OBVIOUS
  <1>6. v \in Kind("creationVersion") /\ VersionIs(v) /\ v # d
    BY <1>1, <1>5, KindIs DEF PriorityInv, CreationIs, VersionsOf
  <1>7. v \in DOMAIN document' /\ document'[v] = document[v]
    BY <1>3, <1>6 DEF Same, Kind
  <1>8. \A e : VersionsOf(e) \subseteq Kind("creationVersion")
    BY DEF VersionsOf
  <1>9. \A w \in Kind("creationVersion") : document'[w] = document[w]
    BY <1>3, KindIs DEF Same, Kind
  <1>10. ASSUME Kind("creation")' = Kind("creation")
         PROVE  VersionIs(v)'
    <2>1. Kind("creationVersion")' = Kind("creationVersion")
      BY <1>3, KindSame, KindIs
    <2>2. \A e : VersionsOf(e)' = VersionsOf(e)
      BY <1>9, <2>1 DEF VersionsOf
    <2>3. \A e : /\ VersionsOf(e) \subseteq VersionsOf(e)'
                /\ \A w \in VersionsOf(e) :
                     /\ document'[w].number = document[w].number
                     /\ document'[w].hash = document[w].hash
      BY <1>9, <2>2 DEF VersionsOf
    <2> QED BY <1>6, <1>7, <1>10, <2>3, VersionStays
  <1> QED BY <1>3, <1>4, <1>6, <1>7, <1>10, PriorityKept

\* The next version of a record, after the sealed one that is active.
LEMMA PriorityVersion ==
  ASSUME Shapes, Shapes', PriorityInv, NEW d \in Kind("creation"), NEW content,
         CreateIpCreationPriorityVersion(d, content)
  PROVE  PriorityInv'
  <1>1. PICK p, n, h, b :
          /\ p = document[d].active /\ n = document[d].current + 1
          /\ h = document[p].hash
          /\ b = CreationVersion(NextOf("creationVersion"))
    OBVIOUS
  <1>2. /\ CreationIs(d) /\ d \in DOMAIN document /\ KindOf(d) = "creation"
        /\ p \in VersionsOf(d) /\ h # NoHash /\ document[p].number = n - 1
        /\ n \in Nat
    BY <1>1, KindIs
    DEF PriorityInv, CreateIpCreationPriorityVersion, Continued, Kind, CreationIs
  <1>3. /\ b = <<"creationVersion", NextOf("creationVersion")>>
        /\ b \notin DOMAIN document /\ KindOf(b) = "creationVersion"
    BY <1>1, NumberedNext, PriorityNames DEF PriorityInv, CreationVersion
  <1>4. PICK x, y :
          /\ y = [creation |-> d, number |-> n, content |-> content,
                  seal |-> "sealed", previous |-> p, previousHash |-> h,
                  hash |-> versionHash(d, n, content, p, h)]
          /\ x = [document[d] EXCEPT !.status = "developing",
                                     !.current = n, !.active = b]
          /\ document' = b :> y @@ d :> x @@ document
    BY <1>1 DEF CreateIpCreationPriorityVersion, Transact
  <1>5. /\ DOMAIN x = DOMAIN document[d] /\ x.code = document[d].code
        /\ x.current = n /\ x.active = b
    BY <1>2, <1>4 DEF CreationIs
  <1>6. /\ b \in DOMAIN document' /\ document'[b] = y
        /\ d \in DOMAIN document' /\ document'[d] = x
        /\ \A e : e # b /\ e # d => Same(e)
    <2>1. b # d /\ document' = b :> y @@ d :> x @@ document
      BY <1>2, <1>3, <1>4
    <2> QED BY <2>1, Write2
  <1>7. Kind("creation")' = Kind("creation")
    <2>1. Kind("creation")' = Kind("creation") \cup {d}
      BY <1>2, <1>3, <1>6, KindWith
    <2> QED BY <2>1
  <1>8. Kind("creationVersion")' = Kind("creationVersion") \cup {b}
    BY <1>2, <1>3, <1>6, KindWith
  <1>9. /\ \A e \in Kind("creation") \ {d} : document'[e] = document[e]
        /\ \A e \in Kind("creationVersion") : document'[e] = document[e] /\ e # b
    BY <1>2, <1>3, <1>6, KindIs DEF Same, Kind
  <1>10. Numbered("creation")' /\ Numbered("creationVersion")'
    BY <1>3, <1>7, <1>8, NumberedAdded DEF PriorityInv, Numbered
  <1>11. /\ VersionsOf(d)' = VersionsOf(d) \cup {b}
         /\ \A e : e # d => VersionsOf(e)' = VersionsOf(e)
    BY <1>4, <1>6, <1>8, <1>9 DEF VersionsOf
  <1>12. \A e : VersionsOf(e) \subseteq Kind("creationVersion")
    BY DEF VersionsOf
  <1>13. \A w \in Kind("creationVersion") : VersionIs(w)'
    BY <1>7, <1>9, <1>11, <1>12, VersionStays DEF PriorityInv
  <1>14. VersionIs(b)'
    <2>1. versionHash(d, n, content, p, h) # NoHash
      BY DEF versionHash, NoHash
    <2>2. p \in Kind("creationVersion") /\ n # 1
      BY <1>2 DEF VersionsOf, PriorityInv, CreationIs, Numbers
    <2>3. /\ DOMAIN y = {"creation", "number", "content", "seal", "previous",
                         "previousHash", "hash"}
          /\ y.creation = d /\ y.number = n /\ y.seal = "sealed"
          /\ y.previous = p /\ y.previousHash = h /\ y.content = content
          /\ y.hash = versionHash(d, n, content, p, h)
      BY <1>4
    <2> QED
      BY <1>1, <1>2, <1>6, <1>7, <1>9, <1>11, <2>1, <2>2, <2>3 DEF VersionIs
  <1>15. ASSUME NEW e \in Kind("creation") \ {d}
         PROVE  CreationIs(e)'
    <2>1. CreationIs(e) /\ document'[e] = document[e]
      BY <1>9 DEF PriorityInv
    <2>2. \A f \in Kind("creation") : document'[f].code = document[f].code
      BY <1>5, <1>6, <1>9
    <2>3. \A f \in Kind("creation")' :
            document'[f].code = document[e].code => f = e
      BY <1>7, <2>1, <2>2 DEF CreationIs
    <2> QED BY <1>9, <1>11, <1>12, <2>1, <2>3, CreationStays
  <1>16. CreationIs(d)'
    <2>1. \A f \in Kind("creation") : document'[f].code = document[f].code
      BY <1>5, <1>6, <1>9
    <2>2. Numbers(d)' = Numbers(d) \cup {n}
      BY <1>4, <1>6, <1>9, <1>11 DEF Numbers, VersionsOf
    <2>3. 1 .. n = (1 .. document[d].current) \cup {n}
      BY <1>1, <1>2 DEF CreationIs
    <2>4. Cardinality(VersionsOf(d) \cup {b}) = Cardinality(VersionsOf(d)) + 1
      <3>1. VersionsOf(d) \subseteq Kind("creationVersion")
        BY DEF VersionsOf
      <3> QED BY <1>9, <3>1, FS_Subset, FS_AddElement DEF PriorityInv, Numbered
    <2>5. document'[b].number = n
      BY <1>4, <1>6
    <2> QED
      BY <1>1, <1>2, <1>5, <1>6, <1>7, <1>11, <2>1, <2>2, <2>3, <2>4, <2>5
      DEF CreationIs
  <1>17. /\ Kind("registryOwner")' = Kind("registryOwner")
         /\ \A u \in Kind("registryOwner") : OwnerIs(u)'
    BY <1>2, <1>3, <1>6, OwnersKept
  <1> QED
    BY <1>7, <1>8, <1>10, <1>13, <1>14, <1>15, <1>16, <1>17 DEF PriorityInv

LEMMA PriorityOwner ==
  ASSUME Shapes, Shapes', PriorityInv, NEW u, NEW n,
         EnsureIpCreationRegistryOwnerIdentity(u, n)
  PROVE  PriorityInv'
  <1>1. PICK a, b : a = OwnerIdentity(u) /\ b = OwnerNumber(n)
    OBVIOUS
  <1>2. /\ KindOf(a) = "registryOwner" /\ KindOf(b) = "ownerNumber"
        /\ b \notin DOMAIN document
        /\ document' = a :> [number |-> n] @@ b :> [owner |-> u] @@ document
    BY <1>1, PriorityNames
    DEF EnsureIpCreationRegistryOwnerIdentity, Transact, Exists
  <1>3. /\ a \in DOMAIN document' /\ document'[a] = [number |-> n]
        /\ b \in DOMAIN document' /\ document'[b] = [owner |-> u]
        /\ \A d : d # a /\ d # b => Same(d)
    BY <1>2, Write2
  <1>4. Kind("registryOwner")' = Kind("registryOwner") \cup {a}
    BY <1>2, <1>3, KindWith
  <1>5. \A o \in Kind("registryOwner") \ {a} : OwnerIs(o)'
    <2> TAKE o \in Kind("registryOwner") \ {a}
    <2>1. OwnerIs(o) /\ document'[o] = document[o]
      BY <1>2, <1>3, KindIs DEF PriorityInv, Same, Kind
    <2>2. OwnerNumber(document[o].number) # b
      BY <1>2, <2>1 DEF OwnerIs
    <2>3. OwnerNumber(document[o].number) # a
      BY <1>2, PriorityNames
    <2> QED BY <1>3, <2>1, <2>2, <2>3 DEF OwnerIs, Same
  <1>6. OwnerIs(a)'
    BY <1>1, <1>3 DEF OwnerIs, OwnerIdentity
  <1>7. Frame({"creation", "creationVersion"}, {})
    BY <1>2, <1>3, KindSame DEF Frame
  <1>8. /\ Kind("creation")' = Kind("creation")
        /\ Kind("creationVersion")' = Kind("creationVersion")
    BY <1>7 DEF Frame
  <1>9. \A d \in Kind("creation") \cup Kind("creationVersion") :
          document'[d] = document[d]
    BY <1>2, <1>3, KindIs DEF Same, Kind
  <1>10. Numbered("creation")' /\ Numbered("creationVersion")'
    BY <1>8 DEF PriorityInv, Numbered
  <1>11. \A d : VersionsOf(d)' = VersionsOf(d)
    BY <1>8, <1>9 DEF VersionsOf
  <1>12. \A d : VersionsOf(d) \subseteq Kind("creationVersion")
    BY DEF VersionsOf
  <1>13. \A v \in Kind("creationVersion") : VersionIs(v)'
    BY <1>8, <1>9, <1>11, <1>12, VersionStays DEF PriorityInv
  <1>14. ASSUME NEW d \in Kind("creation")
         PROVE  CreationIs(d)'
    <2>1. CreationIs(d)
      BY DEF PriorityInv
    <2>2. \A e \in Kind("creation")' :
            document'[e].code = document[d].code => e = d
      BY <1>8, <1>9, <2>1 DEF CreationIs
    <2> QED BY <1>9, <1>11, <1>12, <2>1, <2>2, CreationStays
  <1> QED BY <1>4, <1>5, <1>6, <1>8, <1>10, <1>13, <1>14 DEF PriorityInv

LEMMA PriorityStep ==
  ASSUME Shapes, Shapes', PriorityInv, [PlatformNext]_documentVars
  PROVE  PriorityInv'
  <1>1. IpPriorityNext \/ Frame(PriorityKinds, {})
    <2>1. \A kinds \in {WorkspaceKinds, DetectiveKinds, RiskKinds, CasesKinds,
                        UploadsKinds, LaboratoriesKinds, SponsorKinds,
                        TwinsKinds, TraceabilityKinds, SupplyKinds, BrandKinds,
                        {}} :
            kinds \cap PriorityKinds = {}
      BY DEF WorkspaceKinds, DetectiveKinds, RiskKinds, CasesKinds, UploadsKinds,
         LaboratoriesKinds, SponsorKinds, TwinsKinds, PriorityKinds,
         SupplyKinds, BrandKinds, TraceabilityKinds
    <2>2. IpPriorityNext \/ \E kinds, pcs : /\ Touches(kinds, pcs)
                                            /\ kinds \cap PriorityKinds = {}
      BY <2>1, Stepped
    <2> QED BY <2>2, Framed
  <1>2. ASSUME IpPriorityNext
        PROVE  \/ \E code, content : CreateIpCreationPriorityDraft(code, content)
               \/ \E d \in Kind("creation") :
                    \/ \E v \in Kind("creationVersion") :
                         \/ \E content :
                              UpdateIpCreationPriorityDraft(d, v, content)
                         \/ SealIpCreationPriorityRecord(d, v)
                    \/ \E content : CreateIpCreationPriorityVersion(d, content)
                    \/ ArchiveCreation(d)
               \/ \E u, n : EnsureIpCreationRegistryOwnerIdentity(u, n)
    BY <1>2, Zenon DEF IpPriorityNext
  <1> QED
    BY <1>1, <1>2, PriorityFramed, PriorityDraft, PriorityUpdate, PrioritySeal,
       PriorityVersion, PriorityArchive, PriorityOwner, Zenon

\* The versions of every creation are one chain of hashes.
THEOREM PriorityIsChained == PlatformSpec => []PriorityChained
  <1> DEFINE Inv == Shapes /\ PriorityInv
  <1>1. DocumentsInit => Inv
    <2> SUFFICES ASSUME DocumentsInit
                 PROVE  Inv
      OBVIOUS
    <2>1. \A k : Kind(k) = {}
      BY DEF DocumentsInit, Kind
    <2>2. \A k : Numbered(k)
      BY <2>1, FS_EmptySet DEF Numbered
    <2>3. Shapes
      BY IdleShape DEF DocumentsInit, Shapes, Kind
    <2> QED BY <2>1, <2>2, <2>3 DEF PriorityInv
  <1>2. Inv /\ [PlatformNext]_documentVars => Inv'
    BY ShapesStep, PriorityStep
  <1>3. Inv => PriorityChained
    BY PriorityMeans
  <1> QED BY <1>1, <1>2, <1>3, PTL DEF PlatformSpec

-----------------------------------------------------------------------------
(* The registry of laboratories.                                           *)

LEMMA RegistryNames ==
  /\ LaboratoriesKinds = {"laboratory", "accreditation", "registryAudit", "key"}
  /\ \A i : /\ KindOf(Laboratory(i)) = "laboratory"
            /\ KindOf(Accreditation(i)) = "accreditation"
  /\ \A e, n : KindOf(RegistryAudit(e, n)) = "registryAudit"
  /\ \A c, k : KindOf(Key(c, k)) = "key"
  BY DEF KindOf, Proper, LaboratoriesKinds, Laboratory, Accreditation,
     RegistryAudit, Key

\* The audit events of an entity are those of its versions, in a chain.
EntityIs(e) ==
    LET x == document[e] IN
    /\ x.version \in Nat \ {0} /\ x.lastAudit = RegistryAudit(e, x.version)
    /\ \A n \in 1 .. x.version :
         /\ RegistryAudit(e, n) \in Kind("registryAudit")
         /\ document[RegistryAudit(e, n)].previous
              = IF n = 1 THEN <<>> ELSE RegistryAudit(e, n - 1)

RegistryAuditIs(d) ==
    /\ d = RegistryAudit(d[2], d[3])
    /\ d[2] \in Entities /\ d[3] \in 1 .. document[d[2]].version

RegistryAudits ==
    /\ IsFiniteSet(Kind("registryAudit")) /\ IsFiniteSet(Kind("key"))
    /\ Cardinality(Kind("registryAudit")) = Cardinality(Kind("key"))
    /\ Kind("registryAudit") = {document[k].of : k \in Kind("key")}
    /\ \A e \in Entities : EntityIs(e)
    /\ \A d \in Kind("registryAudit") : RegistryAuditIs(d)

LaboratoryIs(l) ==
    LET x == document[l] IN
    /\ DOMAIN x = {"status", "registration", "version", "lastAudit"}
    /\ \A m \in Kind("laboratory") :
         document[m].registration = x.registration =>
           m = l \/ x.registration = NoRegistration

\* An accreditation that was verified was so by an event, and the last event
\* of one that covers made it active.
AccreditationIs(a) ==
    LET x == document[a] IN
    /\ DOMAIN x = {"status", "verified", "laboratory", "certificate", "version",
                   "lastAudit"}
    /\ \A b \in Kind("accreditation") :
         document[b].certificate = x.certificate => b = a
    /\ x.verified => \E n \in 1 .. x.version :
         document[RegistryAudit(a, n)].type = "VERIFY_ACTIVE"
    /\ x.verified /\ x.status = "ACTIVE" =>
         document[RegistryAudit(a, x.version)].type
           \in {"VERIFY_ACTIVE", "REINSTATE"}

RegistryInv ==
    /\ RegistryAudits
    /\ \A l \in Kind("laboratory") : LaboratoryIs(l)
    /\ \A a \in Kind("accreditation") : AccreditationIs(a)

LEMMA RegistryMeans ==
  ASSUME Shapes, RegistryInv
  PROVE  RegistryWhole
  <1>1. ASSUME NEW e \in Entities
        PROVE  /\ AuditsOf(e) = {RegistryAudit(e, n) : n \in Versions(e)}
               /\ document[e].lastAudit = RegistryAudit(e, document[e].version)
               /\ \A n \in Versions(e) :
                    document[RegistryAudit(e, n)].previous
                      = IF n = 1 THEN <<>> ELSE RegistryAudit(e, n - 1)
    <2>1. Versions(e) = 1 .. document[e].version /\ EntityIs(e)
      BY DEF Versions, Exists, Entities, Kind, RegistryInv, RegistryAudits
    <2>2. \A d \in Kind("registryAudit") : RegistryAuditIs(d)
      BY DEF RegistryInv, RegistryAudits
    <2>3. \A d : d \in AuditsOf(e) => \E n \in Versions(e) : d = RegistryAudit(e, n)
      BY <2>1, <2>2 DEF AuditsOf, RegistryAuditIs
    <2>4. \A n \in Versions(e) : RegistryAudit(e, n) \in AuditsOf(e)
      BY <2>1 DEF AuditsOf, EntityIs, RegistryAudit
    <2>5. AuditsOf(e) = {RegistryAudit(e, n) : n \in Versions(e)}
      BY <2>3, <2>4
    <2> QED BY <2>1, <2>5 DEF EntityIs
  <1>2. /\ Kind("registryAudit") = {document[k].of : k \in Kind("key")}
        /\ Cardinality(Kind("registryAudit")) = Cardinality(Kind("key"))
    BY DEF RegistryInv, RegistryAudits
  <1>3. \A l, m \in Kind("laboratory") :
          document[l].registration = document[m].registration =>
            l = m \/ document[l].registration = NoRegistration
    BY DEF RegistryInv, LaboratoryIs
  <1>4. \A a, b \in Kind("accreditation") :
          document[a].certificate = document[b].certificate => a = b
    BY DEF RegistryInv, AccreditationIs
  <1>5. ASSUME NEW a \in Kind("accreditation"), Covered(a)
        PROVE  /\ Last(a) \in {"VERIFY_ACTIVE", "REINSTATE"}
               /\ \E d \in AuditsOf(a) : document[d].type = "VERIFY_ACTIVE"
    <2>1. EntityIs(a) /\ AccreditationIs(a)
      BY DEF RegistryInv, RegistryAudits, Entities
    <2>2. document[a].verified /\ document[a].status = "ACTIVE"
      BY <1>5 DEF Covered
    <2>3. Last(a) \in {"VERIFY_ACTIVE", "REINSTATE"}
      BY <2>1, <2>2 DEF EntityIs, AccreditationIs, Last
    <2>4. PICK n \in 1 .. document[a].version :
            document[RegistryAudit(a, n)].type = "VERIFY_ACTIVE"
      BY <2>1, <2>2 DEF AccreditationIs
    <2>5. RegistryAudit(a, n) \in AuditsOf(a)
      BY <2>1 DEF EntityIs, AuditsOf, RegistryAudit
    <2> QED BY <2>3, <2>4, <2>5
  <1> QED BY <1>1, <1>2, <1>3, <1>4, <1>5 DEF RegistryWhole

LEMMA RegistryFramed ==
  ASSUME Shapes, Shapes', RegistryInv, Frame(LaboratoriesKinds, {})
  PROVE  RegistryInv'
  <1>1. /\ Kind("laboratory")' = Kind("laboratory")
        /\ Kind("accreditation")' = Kind("accreditation")
        /\ Kind("registryAudit")' = Kind("registryAudit")
        /\ Kind("key")' = Kind("key")
    BY RegistryNames DEF Frame
  <1>2. \A d \in Kind("laboratory") \cup Kind("accreditation")
                   \cup Kind("registryAudit") \cup Kind("key") :
          document'[d] = document[d]
    BY KindIs, RegistryNames DEF Frame, Same, Kind
  <1>3. Entities' = Entities
    BY <1>1 DEF Entities
  <1>4. \A e \in Entities : EntityIs(e)'
    BY <1>1, <1>2 DEF RegistryInv, RegistryAudits, Entities, EntityIs
  <1>5. \A d \in Kind("registryAudit") : RegistryAuditIs(d)'
    BY <1>2, <1>3 DEF RegistryInv, RegistryAudits, RegistryAuditIs, Entities
  <1>6. {document'[k].of : k \in Kind("key")} = {document[k].of : k \in Kind("key")}
    BY <1>2
  <1>7. RegistryAudits'
    BY <1>1, <1>3, <1>4, <1>5, <1>6 DEF RegistryInv, RegistryAudits
  <1>8. \A l \in Kind("laboratory") : LaboratoryIs(l)'
    BY <1>1, <1>2 DEF RegistryInv, LaboratoryIs
  <1>9. ASSUME NEW a \in Kind("accreditation")
        PROVE  AccreditationIs(a)'
    <2>1. /\ AccreditationIs(a) /\ EntityIs(a)
          /\ document'[a] = document[a]
      BY <1>2 DEF RegistryInv, RegistryAudits, Entities
    <2>2. \A n \in 1 .. document[a].version :
            document'[RegistryAudit(a, n)] = document[RegistryAudit(a, n)]
      BY <1>2, <2>1 DEF EntityIs
    <2>3. document[a].version \in 1 .. document[a].version
      BY <2>1 DEF EntityIs
    <2> QED BY <1>1, <1>2, <2>1, <2>2, <2>3 DEF AccreditationIs
  <1> QED BY <1>1, <1>7, <1>8, <1>9 DEF RegistryInv

\* What a mutation makes of the registry: entity e is y, its audit event of
\* this type is the last, and the rest is as it was.
Mutated(e, y, version, type) ==
    /\ RegistryAudits'
    /\ e \in DOMAIN document' /\ document'[e] = y
    /\ \A k \in {"laboratory", "accreditation"} :
         Kind(k)' = IF KindOf(e) = k THEN Kind(k) \cup {e} ELSE Kind(k)
    /\ \A d \in Entities : d # e => document'[d] = document[d]
    /\ \A d \in Kind("registryAudit") : document'[d] = document[d]
    /\ document'[RegistryAudit(e, version)].type = type

LEMMA MutationIs ==
  ASSUME Shapes, Shapes', RegistryInv, NEW callable, NEW k, NEW e, NEW version,
         NEW x, NEW type, NEW y, KindOf(e) \in {"laboratory", "accreditation"},
         version = IF Exists(e) THEN document[e].version + 1 ELSE 1,
         y = x @@ [version |-> version, lastAudit |-> RegistryAudit(e, version)],
         y.version = version, y.lastAudit = RegistryAudit(e, version),
         Mutation(callable, k, e, version, x, type)
  PROVE  Mutated(e, y, version, type)
  <1>1. PICK a, z, previous :
          /\ a = RegistryAudit(e, version) /\ z = Key(callable, k)
          /\ previous = IF Exists(e) THEN document[e].lastAudit ELSE <<>>
    OBVIOUS
  <1>2. /\ z \notin DOMAIN document
        /\ document' = e :> y @@ a :> [type |-> type, previous |-> previous]
                         @@ z :> [of |-> a] @@ document
    BY <1>1, Zenon DEF Mutation, Unused, Exists, Transact
  <1>3. KindOf(a) = "registryAudit" /\ KindOf(z) = "key"
    BY <1>1, RegistryNames
  <1>4. Exists(e) <=> e \in Entities
    BY InKind DEF Exists, Entities
  <1>5. Exists(e) => EntityIs(e)
    BY <1>4 DEF RegistryInv, RegistryAudits
  <1>6. version \in Nat \ {0}
    BY <1>5 DEF EntityIs
  <1>7. a \notin DOMAIN document
    <2>1. ASSUME a \in DOMAIN document
          PROVE  FALSE
      <3>1. a \in Kind("registryAudit")
        BY <1>3, <2>1, InKind
      <3>2. RegistryAuditIs(a) /\ a[2] = e /\ a[3] = version
        BY <1>1, <3>1 DEF RegistryInv, RegistryAudits, RegistryAudit
      <3>3. e \in Entities /\ version \in 1 .. document[e].version
        BY <3>2 DEF RegistryAuditIs
      <3> QED BY <1>4, <1>5, <3>3 DEF EntityIs
    <2> QED BY <2>1
  <1>8. /\ e \in DOMAIN document' /\ document'[e] = y
        /\ a \in DOMAIN document'
        /\ document'[a] = [type |-> type, previous |-> previous]
        /\ z \in DOMAIN document' /\ document'[z] = [of |-> a]
        /\ \A d : d # e /\ d # a /\ d # z => Same(d)
    <2>1. e # a /\ e # z /\ a # z
      BY <1>3
    <2> QED BY <1>2, <2>1, Write3
  <1>9. Kind("registryAudit")' = Kind("registryAudit") \cup {a}
    BY <1>3, <1>8, KindWith
  <1>10. Kind("key")' = Kind("key") \cup {z}
    BY <1>3, <1>8, KindWith
  <1>11. ASSUME NEW q \in {"laboratory", "accreditation"}
         PROVE  Kind(q)' = IF KindOf(e) = q THEN Kind(q) \cup {e} ELSE Kind(q)
    <2>1. CASE KindOf(e) = q
      BY <1>3, <1>8, <2>1, KindWith
    <2>2. CASE KindOf(e) # q
      BY <1>3, <1>8, <2>2, KindSame
    <2> QED BY <2>1, <2>2
  <1>12. Entities' = Entities \cup {e}
    BY <1>11 DEF Entities
  <1>13. \A d : d \in Entities /\ d # e => document'[d] = document[d]
    BY <1>3, <1>8, KindIs DEF Same, Kind, Entities
  <1>14. /\ \A d \in Kind("registryAudit") : document'[d] = document[d] /\ d # a
         /\ \A d \in Kind("key") : document'[d] = document[d] /\ d # z
    BY <1>2, <1>3, <1>7, <1>8, KindIs DEF Same, Kind
  <1>15. ASSUME NEW d \in Entities, d # e
         PROVE  EntityIs(d)'
    <2>1. EntityIs(d) /\ document'[d] = document[d]
      BY <1>13, <1>15 DEF RegistryInv, RegistryAudits
    <2> QED BY <1>9, <1>14, <2>1 DEF EntityIs
  <1>16. EntityIs(e)'
    <2>1. ASSUME NEW n \in 1 .. version
          PROVE  /\ RegistryAudit(e, n) \in Kind("registryAudit")'
                 /\ document'[RegistryAudit(e, n)].previous
                      = IF n = 1 THEN <<>> ELSE RegistryAudit(e, n - 1)
      <3>1. CASE n = version
        <4>1. previous = IF version = 1 THEN <<>> ELSE RegistryAudit(e, version - 1)
          BY <1>1, <1>5, <1>6 DEF EntityIs
        <4> QED BY <1>1, <1>8, <1>9, <3>1, <4>1
      <3>2. CASE n # version
        <4>1. Exists(e) /\ n \in 1 .. document[e].version
          BY <1>5, <3>2 DEF EntityIs
        <4> QED BY <1>5, <1>9, <1>14, <4>1 DEF EntityIs
      <3> QED BY <3>1, <3>2
    <2> QED BY <1>6, <1>8, <2>1 DEF EntityIs
  <1>17. ASSUME NEW d \in Kind("registryAudit")
         PROVE  RegistryAuditIs(d)'
    <2>1. RegistryAuditIs(d)
      BY DEF RegistryInv, RegistryAudits
    <2>2. CASE d[2] # e
      BY <1>12, <1>13, <2>1, <2>2 DEF RegistryAuditIs
    <2>3. CASE d[2] = e
      <3>1. Exists(e) /\ d[3] \in 1 .. document[e].version
        BY <1>4, <2>1, <2>3 DEF RegistryAuditIs
      <3>2. d[3] \in 1 .. version
        BY <1>5, <3>1 DEF EntityIs
      <3> QED BY <1>8, <1>12, <2>1, <2>3, <3>2 DEF RegistryAuditIs
    <2> QED BY <2>2, <2>3
  <1>18. RegistryAuditIs(a)'
    <2>1. a = RegistryAudit(a[2], a[3]) /\ a[2] = e /\ a[3] = version
      BY <1>1 DEF RegistryAudit
    <2> QED BY <1>6, <1>8, <1>12, <2>1 DEF RegistryAuditIs
  <1>19. {document'[d].of : d \in Kind("key") \cup {z}}
           = Kind("registryAudit") \cup {a}
    <2>1. Kind("registryAudit") = {document[d].of : d \in Kind("key")}
      BY DEF RegistryInv, RegistryAudits
    <2>2. document'[z].of = a
      BY <1>8
    <2> QED BY <1>14, <2>1, <2>2
  <1>20. ASSUME NEW S, IsFiniteSet(S), NEW b, b \notin S
         PROVE  /\ IsFiniteSet(S \cup {b})
                /\ Cardinality(S \cup {b}) = Cardinality(S) + 1
    BY <1>20, FS_AddElement
  <1>21. RegistryAudits'
    <2>1. /\ IsFiniteSet(Kind("registryAudit")) /\ IsFiniteSet(Kind("key"))
          /\ Cardinality(Kind("registryAudit")) = Cardinality(Kind("key"))
          /\ a \notin Kind("registryAudit") /\ z \notin Kind("key")
      BY <1>14 DEF RegistryInv, RegistryAudits
    <2>2. /\ IsFiniteSet(Kind("registryAudit")') /\ IsFiniteSet(Kind("key")')
          /\ Cardinality(Kind("registryAudit")') = Cardinality(Kind("key")')
      BY <1>9, <1>10, <1>20, <2>1
    <2>3. \A d \in Entities' : EntityIs(d)'
      BY <1>12, <1>15, <1>16
    <2>4. \A d \in Kind("registryAudit")' : RegistryAuditIs(d)'
      BY <1>9, <1>17, <1>18
    <2> QED BY <1>9, <1>10, <1>19, <2>2, <2>3, <2>4 DEF RegistryAudits
  <1>22. document'[RegistryAudit(e, version)].type = type
    BY <1>1, <1>8
  <1> QED BY <1>8, <1>11, <1>13, <1>14, <1>21, <1>22 DEF Mutated

\* A mutation of a laboratory, and one of an accreditation.
LEMMA LaboratoryMutated ==
  ASSUME Shapes, RegistryInv, NEW l, KindOf(l) = "laboratory", NEW y,
         NEW version, NEW type, Mutated(l, y, version, type),
         DOMAIN y = {"status", "registration", "version", "lastAudit"},
         y.registration # NoRegistration =>
           \A m \in Kind("laboratory") :
             document[m].registration = y.registration => m = l
  PROVE  RegistryInv'
  <1>1. /\ Kind("laboratory")' = Kind("laboratory") \cup {l}
        /\ Kind("accreditation")' = Kind("accreditation")
    BY DEF Mutated
  <1>2. /\ \A m \in Kind("laboratory") : m # l => document'[m] = document[m]
        /\ \A a \in Kind("accreditation") : document'[a] = document[a]
        /\ document'[l] = y
    BY KindIs DEF Mutated, Entities
  <1>3. \A m \in Kind("laboratory") : m # l => LaboratoryIs(m)'
    BY <1>1, <1>2 DEF LaboratoryIs, RegistryInv
  <1>4. LaboratoryIs(l)'
    BY <1>1, <1>2 DEF LaboratoryIs
  <1>5. ASSUME NEW a \in Kind("accreditation")
        PROVE  AccreditationIs(a)'
    <2>1. AccreditationIs(a) /\ EntityIs(a)
      BY DEF RegistryInv, RegistryAudits, Entities
    <2>2. \A n \in 1 .. document[a].version :
            document'[RegistryAudit(a, n)] = document[RegistryAudit(a, n)]
      BY <2>1 DEF EntityIs, Mutated
    <2>3. document[a].version \in 1 .. document[a].version
      BY <2>1 DEF EntityIs
    <2> QED BY <1>1, <1>2, <2>1, <2>2, <2>3 DEF AccreditationIs
  <1> QED BY <1>1, <1>3, <1>4, <1>5 DEF Mutated, RegistryInv

LEMMA AccreditationMutated ==
  ASSUME Shapes, RegistryInv, NEW a, KindOf(a) = "accreditation", NEW y,
         NEW version \in Nat \ {0}, NEW type, Mutated(a, y, version, type),
         DOMAIN y = {"status", "verified", "laboratory", "certificate",
                     "version", "lastAudit"},
         y.version = version,
         \A b \in Kind("accreditation") :
           document[b].certificate = y.certificate => b = a,
         y.verified =>
           \/ type = "VERIFY_ACTIVE"
           \/ /\ a \in Kind("accreditation") /\ document[a].verified
              /\ version = document[a].version + 1,
         y.verified /\ y.status = "ACTIVE" => type \in {"VERIFY_ACTIVE", "REINSTATE"}
  PROVE  RegistryInv'
  <1>1. /\ Kind("laboratory")' = Kind("laboratory")
        /\ Kind("accreditation")' = Kind("accreditation") \cup {a}
    BY DEF Mutated
  <1>2. /\ \A m \in Kind("laboratory") : document'[m] = document[m]
        /\ \A b \in Kind("accreditation") : b # a => document'[b] = document[b]
        /\ document'[a] = y
    BY KindIs DEF Mutated, Entities
  <1>3. \A m \in Kind("laboratory") : LaboratoryIs(m)'
    BY <1>1, <1>2 DEF LaboratoryIs, RegistryInv
  <1>4. ASSUME NEW b \in Kind("accreditation")
        PROVE  /\ AccreditationIs(b) /\ document[b].version \in Nat \ {0}
               /\ \A n \in 1 .. document[b].version :
                    document'[RegistryAudit(b, n)] = document[RegistryAudit(b, n)]
    BY DEF RegistryInv, RegistryAudits, Entities, EntityIs, Mutated
  <1>5. ASSUME NEW b \in Kind("accreditation"), b # a
        PROVE  AccreditationIs(b)'
    <2>1. document[b].version \in 1 .. document[b].version
      BY <1>4
    <2> QED BY <1>1, <1>2, <1>4, <1>5, <2>1 DEF AccreditationIs
  <1>6. AccreditationIs(a)'
    <2>1. document'[RegistryAudit(a, version)].type = type
      BY DEF Mutated
    <2>2. ASSUME y.verified
          PROVE  \E n \in 1 .. version :
                   document'[RegistryAudit(a, n)].type = "VERIFY_ACTIVE"
      <3>1. CASE type = "VERIFY_ACTIVE"
        BY <2>1, <3>1
      <3>2. CASE type # "VERIFY_ACTIVE"
        <4>1. PICK n \in 1 .. document[a].version :
                document[RegistryAudit(a, n)].type = "VERIFY_ACTIVE"
          BY <1>4, <2>2, <3>2 DEF AccreditationIs
        <4>2. n \in 1 .. version
          BY <1>4, <2>2, <3>2
        <4> QED BY <1>4, <2>2, <3>2, <4>1, <4>2
      <3> QED BY <3>1, <3>2
    <2> QED BY <1>1, <1>2, <2>1, <2>2 DEF AccreditationIs
  <1> QED BY <1>1, <1>3, <1>5, <1>6 DEF Mutated, RegistryInv

LEMMA RegistryStep ==
  ASSUME Shapes, Shapes', RegistryInv, [PlatformNext]_documentVars
  PROVE  RegistryInv'
  <1>1. LaboratoriesNext \/ Frame(LaboratoriesKinds, {})
    <2>1. \A kinds \in {WorkspaceKinds, DetectiveKinds, RiskKinds, CasesKinds,
                        UploadsKinds, PriorityKinds, SponsorKinds,
                        TwinsKinds, TraceabilityKinds, SupplyKinds, BrandKinds,
                        {}} :
            kinds \cap LaboratoriesKinds = {}
      BY DEF WorkspaceKinds, DetectiveKinds, RiskKinds, CasesKinds, UploadsKinds,
         LaboratoriesKinds, SponsorKinds, TwinsKinds, PriorityKinds,
         SupplyKinds, BrandKinds, TraceabilityKinds
    <2>2. LaboratoriesNext \/ \E kinds, pcs : /\ Touches(kinds, pcs)
                                              /\ kinds \cap LaboratoriesKinds = {}
      BY <2>1, Stepped
    <2> QED BY <2>2, Framed
  <1>2. \A e : Exists(e) /\ KindOf(e) \in {"laboratory", "accreditation"} =>
          e \in Kind(KindOf(e)) /\ EntityIs(e)
    BY InKind DEF Exists, RegistryInv, RegistryAudits, Entities
  <1>3. ASSUME NEW k, NEW i, NEW registration,
               RegisterLaboratory(k, i, registration)
        PROVE  RegistryInv'
    <2>1. PICK l, x, y : /\ l = Laboratory(i)
                         /\ x = [status |-> "ACTIVE", registration |-> registration]
                         /\ y = x @@ [version |-> 1,
                                      lastAudit |-> RegistryAudit(l, 1)]
      OBVIOUS
    <2>2. /\ DOMAIN y = {"status", "registration", "version", "lastAudit"}
          /\ y.version = 1 /\ y.lastAudit = RegistryAudit(l, 1)
          /\ y.registration = registration
      BY <2>1 DEF @@
    <2>3. KindOf(l) = "laboratory" /\ ~Exists(l)
      BY <1>3, <2>1, RegistryNames DEF RegisterLaboratory
    <2>4. /\ Mutation("registerOdlaLaboratory", k, l, 1, x, "LABORATORY_REGISTERED")
          /\ registration # NoRegistration =>
               ~ \E m \in Kind("laboratory") :
                   document[m].registration = registration
      BY <1>3, <2>1, Zenon DEF RegisterLaboratory
    <2>5. Mutated(l, y, 1, "LABORATORY_REGISTERED")
      BY <2>1, <2>2, <2>3, <2>4, MutationIs
    <2> QED BY <2>2, <2>3, <2>4, <2>5, LaboratoryMutated
  <1>4. ASSUME NEW k, NEW i, NEW version, NEW target,
               ChangeLaboratoryStatus(k, i, version, target)
        PROVE  RegistryInv'
    <2>1. PICK l, n : l = Laboratory(i) /\ n = version + 1
      OBVIOUS
    <2>2. PICK x, y : /\ x = [document[l] EXCEPT
                               !.status = target, !.version = n,
                               !.lastAudit = RegistryAudit(l, n)]
                      /\ y = x @@ [version |-> n, lastAudit |-> RegistryAudit(l, n)]
      OBVIOUS
    <2>3. /\ KindOf(l) = "laboratory" /\ Exists(l)
          /\ document[l].version = version
          /\ Mutation("changeOdlaLaboratoryStatus", k, l, n, x, target)
      BY <1>4, <2>1, <2>2, RegistryNames DEF ChangeLaboratoryStatus, Expected
    <2>4. l \in Kind("laboratory") /\ EntityIs(l)
      BY <1>2, <2>3
    <2>5. LaboratoryIs(l)
      BY <2>4 DEF RegistryInv
    <2>6. /\ DOMAIN x = {"status", "registration", "version", "lastAudit"}
          /\ x.version = n /\ x.lastAudit = RegistryAudit(l, n)
          /\ x.registration = document[l].registration
      BY <2>2, <2>5 DEF LaboratoryIs
    <2>7. /\ DOMAIN y = {"status", "registration", "version", "lastAudit"}
          /\ y.version = n /\ y.lastAudit = RegistryAudit(l, n)
          /\ y.registration = document[l].registration
      BY <2>2, <2>6 DEF @@
    <2>8. Mutated(l, y, n, target)
      BY <2>1, <2>2, <2>3, <2>7, MutationIs
    <2>9. y.registration # NoRegistration =>
            \A m \in Kind("laboratory") :
              document[m].registration = y.registration => m = l
      BY <2>5, <2>7 DEF LaboratoryIs
    <2> QED BY <2>3, <2>7, <2>8, <2>9, LaboratoryMutated
  <1>5. ASSUME NEW k, NEW i, NEW l, NEW certificate,
               SubmitAccreditation(k, i, l, certificate)
        PROVE  RegistryInv'
    <2>1. PICK a, x, y : /\ a = Accreditation(i)
                         /\ x = [status |-> "PENDING_VERIFICATION",
                                 verified |-> FALSE, laboratory |-> l,
                                 certificate |-> certificate]
                         /\ y = x @@ [version |-> 1,
                                      lastAudit |-> RegistryAudit(a, 1)]
      OBVIOUS
    <2>2. /\ DOMAIN y = {"status", "verified", "laboratory", "certificate",
                         "version", "lastAudit"}
          /\ y.version = 1 /\ y.lastAudit = RegistryAudit(a, 1)
          /\ y.certificate = certificate /\ ~y.verified
      BY <2>1 DEF @@
    <2>3. KindOf(a) = "accreditation" /\ ~Exists(a)
      BY <1>5, <2>1, RegistryNames DEF SubmitAccreditation
    <2>4. /\ Mutation("submitOdlaLaboratoryAccreditation", k, a, 1, x,
                      "ACCREDITATION_SUBMITTED")
          /\ ~ \E b \in Kind("accreditation") :
                 document[b].certificate = certificate
      BY <1>5, <2>1, Zenon DEF SubmitAccreditation
    <2>5. Mutated(a, y, 1, "ACCREDITATION_SUBMITTED")
      BY <2>1, <2>2, <2>3, <2>4, MutationIs
    <2> QED BY <2>2, <2>3, <2>4, <2>5, AccreditationMutated
  <1>6. ASSUME NEW k, NEW i, NEW version, NEW decision \in DOMAIN reviewDecision,
               ReviewAccreditation(k, i, version, decision)
        PROVE  RegistryInv'
    <2>1. PICK a, n, s : a = Accreditation(i) /\ n = version + 1
                         /\ s = reviewDecision[decision]
      OBVIOUS
    <2>2. PICK x, y : /\ x = [document[a] EXCEPT
                               !.status = s, !.verified = Verified(decision, @),
                               !.version = n,
                               !.lastAudit = RegistryAudit(a, n)]
                      /\ y = x @@ [version |-> n, lastAudit |-> RegistryAudit(a, n)]
      OBVIOUS
    <2>3. /\ KindOf(a) = "accreditation" /\ Exists(a)
          /\ document[a].version = version
          /\ Mutation("reviewOdlaLaboratoryAccreditation", k, a, n, x, decision)
      BY <1>6, <2>1, <2>2, RegistryNames DEF ReviewAccreditation, Expected
    <2>4. a \in Kind("accreditation") /\ EntityIs(a)
      BY <1>2, <2>3
    <2>5. AccreditationIs(a)
      BY <2>4 DEF RegistryInv
    <2>6. /\ DOMAIN x = {"status", "verified", "laboratory", "certificate",
                         "version", "lastAudit"}
          /\ x.version = n /\ x.lastAudit = RegistryAudit(a, n)
          /\ x.certificate = document[a].certificate /\ x.status = s
          /\ x.verified = Verified(decision, document[a].verified)
      BY <2>2, <2>5 DEF AccreditationIs
    <2>7. /\ DOMAIN y = {"status", "verified", "laboratory", "certificate",
                         "version", "lastAudit"}
          /\ y.version = n /\ y.lastAudit = RegistryAudit(a, n)
          /\ y.certificate = document[a].certificate /\ y.status = s
          /\ y.verified = Verified(decision, document[a].verified)
      BY <2>2, <2>6 DEF @@
    <2>8. Mutated(a, y, n, decision)
      BY <2>1, <2>2, <2>3, <2>7, MutationIs
    <2>9. \A b \in Kind("accreditation") :
            document[b].certificate = y.certificate => b = a
      BY <2>5, <2>7 DEF AccreditationIs
    <2>10. y.verified => decision = "VERIFY_ACTIVE" \/ document[a].verified
      BY <2>7 DEF Verified
    <2>11. s = "ACTIVE" => decision \in {"VERIFY_ACTIVE", "REINSTATE"}
      <3>1. reviewDecision[decision] = "ACTIVE" =>
              decision \in {"VERIFY_ACTIVE", "REINSTATE"}
        BY DEF reviewDecision
      <3> QED BY <2>1, <3>1
    <2>12. n \in Nat \ {0} /\ n = document[a].version + 1
      BY <2>1, <2>3, <2>4 DEF EntityIs
    <2> QED
      BY <2>3, <2>4, <2>7, <2>8, <2>9, <2>10, <2>11, <2>12, AccreditationMutated
  <1>7. ASSUME LaboratoriesNext
        PROVE  \/ \E k, i, registration : RegisterLaboratory(k, i, registration)
               \/ \E k, i, l, certificate :
                    SubmitAccreditation(k, i, l, certificate)
               \/ \E k, i, version : \E decision \in DOMAIN reviewDecision :
                    ReviewAccreditation(k, i, version, decision)
               \/ \E k, i, version, target :
                    ChangeLaboratoryStatus(k, i, version, target)
    BY <1>7, Zenon DEF LaboratoriesNext
  <1> QED BY <1>1, <1>3, <1>4, <1>5, <1>6, <1>7, RegistryFramed, Zenon

-----------------------------------------------------------------------------
(* The custody of samples.                                                 *)

CustodyMine == {"case", "sample", "event"}
CustodyPcs == {"append_custody"}

LEMMA CustodyNames ==
  /\ CustodyMine = {"case", "sample", "event"}
  /\ CustodyPcs = {"append_custody"}
  /\ KindOf(Case) = "case"
  /\ \A s : KindOf(Sample(s)) = "sample"
  /\ \A s, n, t : /\ KindOf(CustodyEvent(s, n, t)) = "event"
                  /\ CustodyEvent(s, n, t) # <<>>
                  /\ CustodyEvent(s, n, t)[2] = s
                  /\ CustodyEvent(s, n, t)[3] = n
                  /\ CustodyEvent(s, n, t)[4] = t
  /\ \A a, o : KindOf(Audit(a, o)) = "audit"
  /\ \A s, r : Sample(s) = Sample(r) => s = r
  BY DEF CustodyMine, CustodyPcs, KindOf, Proper, Case, Sample, CustodyEvent,
     Audit

\* What an event of this number, type and seal continues.
Continues(previous, s, n, type, seal) ==
    IF n = 1 THEN previous = <<>>
    ELSE /\ previous \in Kind("event") /\ previous[2] = s
         /\ previous[3] = n - 1
         /\ type = "lab_opened" => document[previous].seal \in {NoId, seal}

EventIs(e) ==
    /\ e = CustodyEvent(e[2], e[3], e[4])
    /\ e[2] \in Samples /\ e[3] \in 1 .. Sequence(e[2])
    /\ Continues(document[e].previous, e[2], e[3], e[4], document[e].seal)

SampleIs(s) ==
    LET Events == EventsOfSample(s) IN
    /\ Sequence(s) \in Nat
    /\ IsFiniteSet(Events) /\ Cardinality(Events) = Sequence(s)
    /\ \A n \in 1 .. Sequence(s) : \E e \in Events : e[3] = n
    /\ IF Sequence(s) = 0 THEN Head(s) = <<>>
       ELSE Head(s) \in Events /\ Head(s)[3] = Sequence(s)

HeadIs ==
    IF Exists(Case)
    THEN /\ DOMAIN document[Case] = {"op", "head"}
         /\ IF document[Case].head = <<>> THEN Kind("event") = {}
            ELSE \E s \in Samples :
                   Sequence(s) # 0 /\ document[Case].head = Head(s)
    ELSE Kind("event") = {}

\* What a call has read stays: events are not written over.
AppendIs(c) ==
    LET x == call[c] IN
    x.pc = "append_custody" =>
      /\ Exists(Case)
      /\ x.event = CustodyEvent(x.event[2], x.event[3], x.event[4])
      /\ x.event[2] \in Samples
      /\ x.previous # <<>> => x.previous \in Kind("event")
      /\ SealKept(x.previous, x.event[4], x.seal)

CustodyInv ==
    /\ \A e \in Kind("event") : EventIs(e)
    /\ \A s \in Samples : SampleIs(s)
    /\ HeadIs
    /\ \A c \in Calls : AppendIs(c)

LEMMA CustodyMeans ==
  ASSUME CustodyInv
  PROVE  CustodyChained
  <1>1. ASSUME NEW s \in Samples
        PROVE  LET Events == EventsOfSample(s) IN
               /\ Cardinality(Events) = Sequence(s)
               /\ {e[3] : e \in Events} = 1 .. Sequence(s)
               /\ Events # {} => Head(s) \in Events /\ Head(s)[3] = Sequence(s)
               /\ \A e \in Events :
                    LET p == document[e].previous IN
                    IF e[3] = 1 THEN p = <<>>
                    ELSE /\ p \in Events /\ p[3] = e[3] - 1
                         /\ e[4] = "lab_opened" =>
                              document[p].seal \in {NoId, document[e].seal}
    <2>1. SampleIs(s)
      BY DEF CustodyInv
    <2>2. \A e \in EventsOfSample(s) :
            /\ e[3] \in 1 .. Sequence(s)
            /\ Continues(document[e].previous, s, e[3], e[4], document[e].seal)
      BY DEF CustodyInv, EventIs, EventsOfSample
    <2>3. {e[3] : e \in EventsOfSample(s)} = 1 .. Sequence(s)
      BY <2>1, <2>2 DEF SampleIs
    <2>4. EventsOfSample(s) # {} => Sequence(s) # 0
      BY <2>2
    <2> QED
      BY <2>1, <2>2, <2>3, <2>4 DEF SampleIs, Continues, EventsOfSample
  <1>2. Exists(Case) => document[Case].head
          \in {Head(s) : s \in {s \in Samples : EventsOfSample(s) # {}}}
                \cup (IF Kind("event") = {} THEN {<<>>} ELSE {})
    <2>1. \A s \in Samples : Sequence(s) # 0 => EventsOfSample(s) # {}
      BY DEF CustodyInv, SampleIs
    <2> QED BY <2>1 DEF CustodyInv, HeadIs
  <1> QED BY <1>1, <1>2 DEF CustodyChained

\* Events and samples that are left alone keep what is said of them.
LEMMA EventsFramed ==
  ASSUME Shapes, Shapes', CustodyInv, Frame({"sample", "event"}, {})
  PROVE  /\ Kind("event")' = Kind("event")
         /\ \A e \in Kind("event") : document'[e] = document[e] /\ EventIs(e)'
         /\ \A s \in Samples : /\ SampleIs(s)' /\ Sequence(s)' = Sequence(s)
                               /\ Head(s)' = Head(s)
  <1>1. /\ Kind("event")' = Kind("event")
        /\ \A e \in Kind("event") : document'[e] = document[e]
    BY KindIs DEF Frame, Same, Kind
  <1>2. \A s : Sequence(s)' = Sequence(s) /\ Head(s)' = Head(s)
    BY CustodyNames DEF Frame, Same, Sequence, Head, Exists
  <1>3. \A s : EventsOfSample(s)' = EventsOfSample(s)
    BY <1>1 DEF EventsOfSample
  <1>4. ASSUME NEW e \in Kind("event")
        PROVE  EventIs(e)'
    <2>1. EventIs(e)
      BY DEF CustodyInv
    <2> QED BY <1>1, <1>2, <2>1 DEF EventIs, Continues
  <1>5. \A s \in Samples : SampleIs(s)'
    BY <1>2, <1>3 DEF CustodyInv, SampleIs
  <1> QED BY <1>1, <1>2, <1>4, <1>5

LEMMA CustodyFramed ==
  ASSUME Shapes, Shapes', CustodyInv, Frame(CustodyMine, CustodyPcs)
  PROVE  CustodyInv'
  <1>1. Frame({"sample", "event"}, {})
    BY CustodyNames DEF Frame
  <1>2. /\ Exists(Case)' <=> Exists(Case)
        /\ Exists(Case) => document'[Case] = document[Case]
    BY CustodyNames DEF Frame, Same, Exists
  <1>3. HeadIs'
    BY <1>1, <1>2, EventsFramed DEF CustodyInv, HeadIs
  <1>4. ASSUME NEW c \in Calls
        PROVE  AppendIs(c)'
    <2>1. CASE call'[c].pc = "append_custody"
      <3>1. call'[c] = call[c]
        BY <2>1, CustodyNames DEF Frame
      <3>2. AppendIs(c)
        BY DEF CustodyInv
      <3> QED BY <1>1, <1>2, <3>1, <3>2, EventsFramed DEF AppendIs, SealKept
    <2>2. CASE call'[c].pc # "append_custody"
      BY <2>2 DEF AppendIs
    <2> QED BY <2>1, <2>2
  <1> QED BY <1>1, <1>3, <1>4, EventsFramed DEF CustodyInv

LEMMA CaseCreated ==
  ASSUME Shapes, Shapes', CustodyInv, NEW op, CreateOdlaVerificationCase(op)
  PROVE  CustodyInv'
  <1>1. PICK x, y : /\ DOMAIN x = {"op", "head"} /\ x.head = <<>>
                    /\ document' = Case :> x @@ Audit("create_case", op) :> y
                                     @@ document
                    /\ ~Exists(Case) /\ UNCHANGED call
    <2>1. PICK x : x = [op |-> op] @@ [head |-> <<>>]
      OBVIOUS
    <2>2. DOMAIN x = {"op", "head"} /\ x.head = <<>>
      BY <2>1 DEF @@
    <2>3. PICK y : document' = Case :> x @@ Audit("create_case", op) :> y
                                 @@ document
      BY <2>1, Zenon DEF CreateOdlaVerificationCase, Record, Transact
    <2> QED
      BY <2>2, <2>3
      DEF CreateOdlaVerificationCase, Transact, Unrecorded
  <1>2. /\ Case \in DOMAIN document' /\ document'[Case] = x
        /\ \A d : d # Case /\ d # Audit("create_case", op) => Same(d)
    <2>1. Case # Audit("create_case", op)
      BY CustodyNames
    <2> QED BY <1>1, <2>1, Write2
  <1>3. Frame({"sample", "event"}, {})
    <2>1. \A d : KindOf(d) \in {"sample", "event"} => Same(d)
      BY <1>2, CustodyNames
    <2> QED BY <2>1, KindSame DEF Frame
  <1>4. Kind("event") = {} /\ Kind("event")' = {}
    BY <1>1, <1>3, EventsFramed DEF CustodyInv, HeadIs
  <1>5. HeadIs'
    BY <1>1, <1>2, <1>4 DEF HeadIs, Exists
  <1>6. \A c \in Calls : call'[c].pc # "append_custody"
    BY <1>1 DEF CustodyInv, AppendIs
  <1> QED BY <1>3, <1>5, <1>6, EventsFramed DEF CustodyInv, AppendIs

LEMMA CustodyRead ==
  ASSUME Shapes, Shapes', CustodyInv, NEW c \in Calls, NEW s \in Samples,
         NEW op, NEW type, NEW seal,
         AppendOdlaChainOfCustodyEvent(c, op, s, type, seal)
  PROVE  CustodyInv'
  <1>1. PICK next, e :
          /\ e = CustodyEvent(s, Sequence(s) + 1, type)
          /\ next = [pc |-> "append_custody", op |-> op, event |-> e,
                     previous |-> Head(s), seal |-> seal]
          /\ Read(c, next) /\ Exists(Case)
    BY DEF AppendOdlaChainOfCustodyEvent
  <1>2. (\A d : Same(d)) /\ Moved(c, next)
    BY <1>1, ReadIs DEF Shapes
  <1>3. Frame({"case", "sample", "event"}, {})
    BY <1>2, KindSame DEF Frame
  <1>4. Frame({"sample", "event"}, {})
    BY <1>3 DEF Frame
  <1>5. /\ Exists(Case)' <=> Exists(Case)
        /\ Exists(Case) => document'[Case] = document[Case]
    BY <1>2 DEF Same, Exists
  <1>6. HeadIs'
    BY <1>4, <1>5, EventsFramed DEF CustodyInv, HeadIs
  <1>7. ASSUME NEW d \in Calls \ {c}
        PROVE  AppendIs(d)'
    <2>1. call'[d] = call[d] /\ AppendIs(d)
      BY <1>2 DEF Moved, CustodyInv
    <2> QED BY <1>4, <1>5, <2>1, EventsFramed DEF AppendIs, SealKept
  <1>8. call'[c] = next
    BY <1>2 DEF Moved
  <1>9. AppendIs(c)'
    <2>1. /\ e = CustodyEvent(e[2], e[3], e[4]) /\ e[2] = s /\ e[4] = type
      BY <1>1, CustodyNames
    <2>2. Head(s) # <<>> => Head(s) \in Kind("event")
      BY DEF CustodyInv, SampleIs, EventsOfSample
    <2>3. SealKept(Head(s), type, seal)
      BY DEF AppendOdlaChainOfCustodyEvent
    <2>4. SealKept(Head(s), type, seal)'
      <3>1. Head(s)' = Head(s)
        BY <1>4, EventsFramed
      <3> QED BY <1>4, <2>2, <2>3, <3>1, EventsFramed DEF SealKept
    <2>5. Head(s)' = Head(s) /\ Kind("event")' = Kind("event")
      BY <1>4, EventsFramed
    <2> QED BY <1>1, <1>5, <1>8, <2>1, <2>2, <2>4, <2>5 DEF AppendIs
  <1> QED BY <1>4, <1>6, <1>7, <1>9, EventsFramed DEF CustodyInv

LEMMA CustodyAppend ==
  ASSUME Shapes, Shapes', CustodyInv, NEW c \in Calls, AppendCustodyEvent(c)
  PROVE  CustodyInv'
  <1>1. PICK e, s, x, k :
          /\ e = call[c].event /\ s = e[2]
          /\ x = [op |-> call[c].op]
                   @@ [previous |-> call[c].previous, seal |-> call[c].seal]
          /\ k = [document[Case] EXCEPT
                   !.head = IF document[Case].head = <<>>
                               \/ call[c].previous = @ THEN e ELSE @]
    OBVIOUS
  <1>2. /\ AppendIs(c) /\ call[c].pc = "append_custody"
        /\ ~Exists(e) /\ NextOfSample(e, call[c].previous)
    BY <1>1 DEF CustodyInv, AppendCustodyEvent, Unrecorded
  <1>3. /\ e = CustodyEvent(s, e[3], e[4]) /\ s \in Samples
        /\ Exists(Case) /\ KindOf(e) = "event" /\ SampleIs(s)
    BY <1>1, <1>2, CustodyNames DEF AppendIs, CustodyInv
  <1>4. /\ x.previous = call[c].previous /\ x.seal = call[c].seal
    BY <1>1 DEF @@
  <1>5. PICK a, z, y :
          /\ KindOf(a) = "audit" /\ z = [sequence |-> e[3], last |-> e]
          /\ document' = e :> x @@ a :> y @@ Sample(s) :> z @@ Case :> k
                           @@ document
          /\ Moved(c, Idle)
    <2>1. PICK a, z, y :
            /\ KindOf(a) = "audit" /\ z = [sequence |-> e[3], last |-> e]
            /\ Commit(c, e :> x @@ a :> y @@ Sample(s) :> z @@ Case :> k)
      <3>1. PICK z, y :
              /\ z = [sequence |-> e[3], last |-> e]
              /\ Commit(c, e :> x @@ Audit("append_custody", call[c].op) :> y
                             @@ Sample(s) :> z @@ Case :> k)
        BY <1>1, Zenon DEF AppendCustodyEvent, Record
      <3> QED BY <3>1, CustodyNames
    <2> QED BY <2>1, CommitIs DEF Shapes
  <1>6. /\ e \in DOMAIN document' /\ document'[e] = x
        /\ Sample(s) \in DOMAIN document' /\ document'[Sample(s)] = z
        /\ Case \in DOMAIN document' /\ document'[Case] = k
        /\ \A d : d # e /\ d # Sample(s) /\ d # Case /\ d # a => Same(d)
    <2>1. /\ e # a /\ e # Sample(s) /\ e # Case
          /\ a # Sample(s) /\ a # Case /\ Sample(s) # Case
      BY <1>3, <1>5, CustodyNames
    <2> QED BY <1>5, <2>1, Write4
  <1>7. /\ Kind("event")' = Kind("event") \cup {e} /\ e \notin Kind("event")
        /\ \A d \in Kind("event") : document'[d] = document[d]
    <2>1. e \notin Kind("event")
      BY <1>2 DEF Exists, Kind
    <2>2. Kind("event")' = Kind("event") \cup {e}
      BY <1>3, <1>5, <1>6, CustodyNames, KindWith
    <2>3. \A d \in Kind("event") : Same(d) /\ d \in DOMAIN document
      BY <1>5, <1>6, <2>1, CustodyNames, KindIs DEF Kind
    <2> QED BY <2>1, <2>2, <2>3 DEF Same
  <1>8. /\ Sequence(s) \in Nat /\ e[3] = Sequence(s) + 1 /\ e[3] \in Nat \ {0}
        /\ call[c].previous = Head(s)
    BY <1>1, <1>2, <1>3 DEF SampleIs, NextOfSample
  <1>9. Sequence(s)' = e[3] /\ Head(s)' = e
    BY <1>5, <1>6 DEF Sequence, Head, Exists
  <1>10. \A r : r # s => Sequence(r)' = Sequence(r) /\ Head(r)' = Head(r)
    <2>1. ASSUME NEW r, r # s
          PROVE  Same(Sample(r))
      <3>1. Sample(r) # Sample(s) /\ KindOf(Sample(r)) = "sample"
        BY <2>1, CustodyNames
      <3> QED BY <1>3, <1>5, <1>6, <3>1, CustodyNames
    <2> QED BY <2>1 DEF Same, Sequence, Head, Exists
  <1>11. \A r : EventsOfSample(r)'
                  = IF r = s THEN EventsOfSample(r) \cup {e} ELSE EventsOfSample(r)
    BY <1>1, <1>7 DEF EventsOfSample
  <1>12. ASSUME NEW d \in Kind("event")
         PROVE  EventIs(d)'
    <2>1. EventIs(d) /\ document'[d] = document[d]
      BY <1>7 DEF CustodyInv
    <2>2. Continues(document[d].previous, d[2], d[3], d[4], document[d].seal)'
      BY <1>7, <2>1 DEF EventIs, Continues
    <2>3. Sequence(d[2])' = Sequence(d[2]) \/ d[2] = s
      BY <1>10
    <2> QED BY <1>8, <1>9, <2>1, <2>2, <2>3 DEF EventIs
  <1>13. EventIs(e)'
    <2>1. PICK p : p = Head(s)
      OBVIOUS
    <2>2. Continues(p, s, e[3], e[4], x.seal)'
      <3>1. CASE Sequence(s) = 0
        BY <1>3, <1>8, <2>1, <3>1 DEF SampleIs, Continues
      <3>2. CASE Sequence(s) # 0
        <4>1. /\ p \in Kind("event") /\ p[2] = s /\ p[3] = Sequence(s)
          BY <1>3, <2>1, <3>2 DEF SampleIs, EventsOfSample
        <4>2. p # <<>>
          BY <4>1 DEF Kind, Shapes, Proper
        <4>3. e[4] = "lab_opened" => document[p].seal \in {NoId, x.seal}
          BY <1>1, <1>2, <1>4, <1>8, <2>1, <4>2 DEF AppendIs, SealKept
        <4> QED BY <1>7, <1>8, <3>2, <4>1, <4>3 DEF Continues
      <3> QED BY <3>1, <3>2
    <2> QED BY <1>1, <1>3, <1>4, <1>6, <1>8, <1>9, <2>1, <2>2 DEF EventIs
  <1>14. ASSUME NEW r \in Samples
         PROVE  SampleIs(r)'
    <2>1. SampleIs(r)
      BY DEF CustodyInv
    <2>2. CASE r # s
      BY <1>10, <1>11, <2>1, <2>2 DEF SampleIs
    <2>3. CASE r = s
      <3>1. PICK S : S = EventsOfSample(s)
        OBVIOUS
      <3>2. e \notin S /\ IsFiniteSet(S) /\ Cardinality(S) = Sequence(s)
        BY <1>3, <1>7, <3>1 DEF SampleIs, EventsOfSample
      <3>3. IsFiniteSet(S \cup {e}) /\ Cardinality(S \cup {e}) = Sequence(s) + 1
        BY <3>2, FS_AddElement
      <3>4. EventsOfSample(s)' = S \cup {e}
        BY <1>11, <3>1
      <3>5. \A n \in 1 .. e[3] : \E d \in S \cup {e} : d[3] = n
        <4>1. \A n \in 1 .. Sequence(s) : \E d \in S : d[3] = n
          BY <1>3, <3>1 DEF SampleIs
        <4>2. \A n \in 1 .. e[3] : n = e[3] \/ n \in 1 .. Sequence(s)
          BY <1>8
        <4> QED BY <4>1, <4>2
      <3>6. SampleIs(s)'
        BY <1>8, <1>9, <3>3, <3>4, <3>5 DEF SampleIs
      <3> QED BY <2>3, <3>6
    <2> QED BY <2>2, <2>3
  <1>15. HeadIs'
    <2>1. /\ DOMAIN document[Case] = {"op", "head"}
          /\ document[Case].head # <<>> => \E r \in Samples :
               Sequence(r) # 0 /\ document[Case].head = Head(r)
      BY <1>3 DEF CustodyInv, HeadIs
    <2>2. /\ DOMAIN k = {"op", "head"}
          /\ k.head = IF document[Case].head = <<>>
                         \/ Head(s) = document[Case].head THEN e
                      ELSE document[Case].head
      BY <1>1, <1>8, <2>1
    <2>3. e # <<>>
      BY <1>3, CustodyNames
    <2>4. \E r \in Samples : Sequence(r)' # 0 /\ k.head = Head(r)'
      <3>1. CASE k.head = e
        BY <1>3, <1>8, <1>9, <3>1
      <3>2. CASE k.head # e
        <4>1. PICK r \in Samples :
                Sequence(r) # 0 /\ document[Case].head = Head(r)
          BY <2>1, <2>2, <3>2
        <4>2. r # s /\ k.head = Head(r)
          BY <2>2, <3>2, <4>1
        <4> QED BY <1>10, <4>1, <4>2
      <3> QED BY <3>1, <3>2
    <2>5. k.head # <<>>
      BY <2>2, <2>3
    <2> QED BY <1>6, <2>2, <2>4, <2>5 DEF HeadIs, Exists
  <1>16. ASSUME NEW d \in Calls
         PROVE  AppendIs(d)'
    <2>1. CASE d = c
      BY <1>5, <2>1 DEF Moved, AppendIs, Idle
    <2>2. CASE d # c
      <3>1. call'[d] = call[d] /\ AppendIs(d)
        BY <1>5, <2>2 DEF Moved, CustodyInv
      <3> QED BY <1>6, <1>7, <3>1 DEF AppendIs, SealKept, Exists
    <2> QED BY <2>1, <2>2
  <1> QED BY <1>7, <1>12, <1>13, <1>14, <1>15, <1>16 DEF CustodyInv

LEMMA CustodyStep ==
  ASSUME Shapes, Shapes', CustodyInv, [PlatformNext]_documentVars
  PROVE  CustodyInv'
  <1>1. \/ \E c \in Calls : WorkspaceNext(c)
        \/ Frame(CustodyMine, CustodyPcs)
    <2> DEFINE Apart(kinds, pcs) ==
                 /\ kinds \cap CustodyMine = {} /\ pcs \cap CustodyPcs = {}
    <2>1. /\ Apart(DetectiveKinds, DetectivePcs) /\ Apart(RiskKinds, RiskPcs)
          /\ Apart(CasesKinds, CasesPcs) /\ Apart(UploadsKinds, UploadsPcs)
          /\ Apart(SponsorKinds, SponsorPcs) /\ Apart({}, {})
          /\ \A kinds \in {LaboratoriesKinds, TraceabilityKinds, TwinsKinds,
                           PriorityKinds, SupplyKinds, BrandKinds} :
               Apart(kinds, {})
      BY DEF DetectiveKinds, RiskKinds, CasesKinds, UploadsKinds, SponsorKinds,
         LaboratoriesKinds, TraceabilityKinds, TwinsKinds, PriorityKinds,
         SupplyKinds, BrandKinds, CustodyMine, CustodyPcs, DetectivePcs,
         RiskPcs, CasesPcs, UploadsPcs, SponsorPcs
    <2> HIDE DEF Apart
    <2>2. \/ \E c \in Calls : WorkspaceNext(c)
          \/ \E kinds, pcs : Touches(kinds, pcs) /\ Apart(kinds, pcs)
      BY <2>1, Stepped
    <2>3. "idle" \notin CustodyPcs
      BY DEF CustodyPcs
    <2> QED BY <2>2, <2>3, Framed DEF Apart
  <1>2. ASSUME NEW c \in Calls, TestReads(c) \/ TestWrites(c)
        PROVE  Frame(CustodyMine, CustodyPcs)
    <2>1. /\ TestKinds \cap CustodyMine = {} /\ TestPcs \cap CustodyPcs = {}
          /\ "idle" \notin CustodyPcs
      BY DEF TestKinds, CustodyMine, TestPcs, CustodyPcs
    <2> QED BY <1>2, <2>1, TestsTouch, Framed
  <1> QED
    BY <1>1, <1>2, WorkspaceSteps, CaseCreated, CustodyRead, CustodyAppend,
       CustodyFramed

-----------------------------------------------------------------------------
(* The audit of the workspace, and the resolution of appeals.              *)

AuditMine == RecordKinds \cup {"audit"}

LEMMA AuditNames ==
  /\ RecordKinds = {"case", "event", "request", "result", "finding", "appeal"}
  /\ AuditMine = {"case", "event", "request", "result", "finding", "appeal",
                  "audit"}
  /\ TestPcs = {"create_test_request", "adjudicate_finding", "resolve_appeal"}
  /\ \A a, o, b, q : Audit(a, o) = Audit(b, q) => a = b /\ o = q
  /\ \A i, j : TestRequest(i)[2] = i /\ (Appeal(i) = Appeal(j) => i = j)
  BY DEF RecordKinds, AuditMine, TestPcs, Audit, TestRequest, Appeal

Recorded == {d \in DOMAIN document : d[1] \in RecordKinds}

AppealFields == {"op", "finding", "primary", "state", "request", "lab",
                 "final", "resolution"}

AppealIs(a) ==
    LET x == document[a] IN
    /\ x = [f \in AppealFields |-> x[f]]
    /\ x.request # NoId => TestRequest(x.request) \in Kind("request")
    /\ x.resolution # NoId =>
         /\ Audit("resolve_appeal", x.resolution) \in Kind("audit")
         /\ document[Audit("resolve_appeal", x.resolution)].of = a
         /\ x.lab \notin {NoId, x.primary}

\* A call knows a laboratory other than the first one, which stays the first.
TestIs(c) ==
    LET x == call[c] IN
    /\ x.pc = "create_test_request" =>
         /\ x.request = TestRequest(x.request[2]) /\ x.lab \in Laboratories
         /\ x.appeal # NoId => Appeal(x.appeal) \in Appeals
    /\ x.pc = "resolve_appeal" =>
         /\ x.op # NoId /\ x.appeal \in Appeals
         /\ x.lab \notin {NoId, document[x.appeal].primary}

AuditCounts ==
    /\ IsFiniteSet(Recorded) /\ IsFiniteSet(Kind("audit"))
    /\ IsFiniteSet(Resolved)
    /\ {document[e].of : e \in Kind("audit")} = Recorded
    /\ Cardinality(Kind("audit")) = Cardinality(Recorded) + Cardinality(Resolved)

AuditInv ==
    /\ AuditCounts
    /\ \A a \in Appeals : AppealIs(a)
    /\ \A r \in Kind("request") : document[r].lab \in Laboratories
    /\ \A c \in Calls : TestIs(c)

LEMMA AuditMeans ==
  ASSUME AuditInv
  PROVE  AuditWhole
  <1>1. \A a \in Resolved :
          /\ Exists(Audit("resolve_appeal", document[a].resolution))
          /\ document[Audit("resolve_appeal", document[a].resolution)].of = a
    BY DEF AuditInv, AppealIs, Resolved, Exists, Kind
  <1> QED BY <1>1 DEF AuditInv, AuditCounts, AuditWhole, Recorded

\* What was resolved has the outcome that it had.
Standing ==
    \A a \in Resolved :
      a \in DOMAIN document' /\ document'[a] = [document[a] EXCEPT
                                                  !.request = document'[a].request]

\* An appeal keeps all but its test request.
AppealKept(a) ==
    \/ document'[a] = document[a]
    \/ \E i : /\ TestRequest(i) \in Kind("request")'
              /\ document'[a] = [document[a] EXCEPT !.request = i]

LEMMA AppealStands ==
  ASSUME NEW a \in Appeals, AppealIs(a), AppealKept(a)
  PROVE  /\ document'[a] = [f \in AppealFields |-> document'[a][f]]
         /\ document'[a].resolution = document[a].resolution
         /\ document'[a].lab = document[a].lab
         /\ document'[a].primary = document[a].primary
         /\ \/ document'[a].request = document[a].request
            \/ TestRequest(document'[a].request) \in Kind("request")'
         /\ document'[a] = [document[a] EXCEPT !.request = document'[a].request]
  <1>1. PICK x, F : x = document[a] /\ F = AppealFields
    OBVIOUS
  <1>2. x = [f \in F |-> x[f]] /\ F = {"op", "finding", "primary", "state",
                                       "request", "lab", "final", "resolution"}
    BY <1>1 DEF AppealIs, AppealFields
  <1>3. CASE document'[a] = document[a]
    <2>1. x = [x EXCEPT !.request = x.request]
      BY <1>2
    <2>2. document'[a] = x
      BY <1>1, <1>3
    <2>3. document'[a] = [f \in AppealFields |-> document'[a][f]]
      BY <1>1, <1>2, <2>2
    <2>4. document'[a] = [document[a] EXCEPT !.request = document'[a].request]
      BY <1>1, <2>1, <2>2
    <2> QED BY <1>3, <2>3, <2>4
  <1>4. ASSUME NEW i, TestRequest(i) \in Kind("request")',
               document'[a] = [document[a] EXCEPT !.request = i]
        PROVE  /\ document'[a] = [f \in AppealFields |-> document'[a][f]]
               /\ document'[a].resolution = document[a].resolution
               /\ document'[a].lab = document[a].lab
               /\ document'[a].primary = document[a].primary
               /\ TestRequest(document'[a].request) \in Kind("request")'
               /\ document'[a] = [document[a] EXCEPT
                                    !.request = document'[a].request]
    <2>1. PICK y : y = document'[a] /\ y = [x EXCEPT !.request = i]
      BY <1>1, <1>4
    <2>2. /\ y = [f \in F |-> y[f]] /\ y = [x EXCEPT !.request = y.request]
          /\ y.resolution = x.resolution /\ y.lab = x.lab
          /\ y.primary = x.primary /\ y.request = i
      BY <1>2, <2>1
    <2> QED BY <1>1, <1>4, <2>1, <2>2
  <1> QED BY <1>3, <1>4 DEF AppealKept

\* What the appeals and the calls keep, whatever else is recorded.
LEMMA AppealsKept ==
  ASSUME Shapes, Shapes', AuditInv,
         \A k \in {"request", "audit", "appeal"} : Kind(k) \subseteq Kind(k)',
         \A d \in Kind("request") \cup Kind("audit") : document'[d] = document[d],
         \A a \in Appeals : AppealKept(a)
  PROVE  /\ \A a \in Appeals : AppealIs(a)'
         /\ Resolved \subseteq Resolved' /\ Resolved' \cap Appeals = Resolved
         /\ Standing
         /\ \A c \in Calls : call'[c] = call[c] => TestIs(c)'
  <1>1. ASSUME NEW a \in Appeals
        PROVE  AppealIs(a)'
    <2>1. AppealIs(a) /\ AppealKept(a)
      BY DEF AuditInv
    <2>2. /\ document'[a].resolution = document[a].resolution
          /\ document'[a].lab = document[a].lab
          /\ document'[a].primary = document[a].primary
          /\ \/ document'[a].request = document[a].request
             \/ TestRequest(document'[a].request) \in Kind("request")'
      BY <2>1, AppealStands
    <2>3. PICK r, b, t : /\ r = document[a].resolution
                         /\ b = Audit("resolve_appeal", r)
                         /\ t = TestRequest(document[a].request)
      OBVIOUS
    <2>4. /\ r # NoId => /\ b \in Kind("audit") /\ document[b].of = a
                         /\ document[a].lab \notin {NoId, document[a].primary}
          /\ document[a].request # NoId => t \in Kind("request")
      BY <2>1, <2>3 DEF AppealIs
    <2>5. /\ b \in Kind("audit") =>
               b \in Kind("audit")' /\ document'[b] = document[b]
          /\ t \in Kind("request") => t \in Kind("request")'
      OBVIOUS
    <2>6. document'[a].resolution # NoId =>
            /\ Audit("resolve_appeal", document'[a].resolution) \in Kind("audit")'
            /\ document'[Audit("resolve_appeal", document'[a].resolution)].of = a
            /\ document'[a].lab \notin {NoId, document'[a].primary}
      BY <2>2, <2>3, <2>4, <2>5
    <2>7. document'[a].request # NoId =>
            TestRequest(document'[a].request) \in Kind("request")'
      BY <2>2, <2>3, <2>4, <2>5
    <2>8. document'[a] = [f \in AppealFields |-> document'[a][f]]
      BY <2>1, AppealStands
    <2> QED BY <2>6, <2>7, <2>8 DEF AppealIs
  <1>2. \A a \in Appeals : /\ document'[a].resolution = document[a].resolution
                           /\ document'[a].primary = document[a].primary
                           /\ a \in Appeals' /\ a \in DOMAIN document'
    BY AppealStands DEF AuditInv, Appeals, Kind
  <1>3. Resolved \subseteq Resolved' /\ Resolved' \cap Appeals = Resolved
    BY <1>2 DEF Resolved
  <1>4. Standing
    BY <1>2, AppealStands DEF Standing, Resolved, AuditInv
  <1>5. ASSUME NEW c \in Calls, call'[c] = call[c]
        PROVE  TestIs(c)'
    BY <1>2, <1>5 DEF AuditInv, TestIs
  <1> QED BY <1>1, <1>3, <1>4, <1>5

\* A record d and its audit event b are new, together.
LEMMA AuditRecord ==
  ASSUME Shapes, Shapes', AuditInv, NEW d, NEW b,
         KindOf(d) \in RecordKinds, KindOf(b) = "audit",
         d \notin DOMAIN document, b \notin DOMAIN document,
         d \in DOMAIN document', b \in DOMAIN document', document'[b].of = d,
         \A e : KindOf(e) \in AuditMine /\ e # d /\ e # b =>
                  (e \in DOMAIN document' <=> e \in DOMAIN document),
         \A e : KindOf(e) \in {"audit", "request"} /\ e # d /\ e # b => Same(e),
         \A a \in Appeals : AppealKept(a),
         KindOf(d) = "appeal" => AppealIs(d)' /\ document'[d].resolution = NoId,
         KindOf(d) = "request" => document'[d].lab \in Laboratories,
         \A c \in Calls : call'[c].pc \in TestPcs => call'[c] = call[c]
  PROVE  AuditInv' /\ Standing
  <1>1. KindOf(d) # "audit" /\ d # b
    BY AuditNames
  <1>2. Kind("audit")' = Kind("audit") \cup {b} /\ b \notin Kind("audit")
    BY <1>1, KindWith DEF Kind
  <1>3. Recorded' = Recorded \cup {d} /\ d \notin Recorded
    <2>1. \A e : e \in Recorded <=> e \in DOMAIN document /\ KindOf(e) \in RecordKinds
      BY AuditNames DEF Recorded, KindOf, Shapes
    <2>2. \A e : e \in Recorded' <=> e \in DOMAIN document' /\ KindOf(e) \in RecordKinds
      BY AuditNames DEF Recorded, KindOf, Shapes
    <2>3. \A e : KindOf(e) \in RecordKinds => KindOf(e) \in AuditMine /\ e # b
      BY AuditNames
    <2> QED BY <2>1, <2>2, <2>3
  <1>4. /\ \A k \in {"request", "audit", "appeal"} : Kind(k) \subseteq Kind(k)'
        /\ \A e \in Kind("request") \cup Kind("audit") : document'[e] = document[e]
    BY KindIs, AuditNames DEF Kind, Same
  <1>5. /\ \A a \in Appeals : AppealIs(a)'
        /\ Resolved' \cap Appeals = Resolved
        /\ Standing
        /\ \A c \in Calls : call'[c] = call[c] => TestIs(c)'
    BY <1>4, AppealsKept
  <1>6. ASSUME NEW a \in Appeals', a \notin Appeals
        PROVE  a = d /\ KindOf(d) = "appeal"
    BY <1>6, InKind, AuditNames DEF Appeals, Kind, KindOf, Shapes
  <1>7. \A a \in Appeals' : AppealIs(a)'
    BY <1>5, <1>6
  <1>8. Resolved' = Resolved
    BY <1>5, <1>6 DEF Resolved
  <1>9. ASSUME NEW r \in Kind("request")'
        PROVE  document'[r].lab \in Laboratories
    <2>1. (r = d /\ KindOf(d) = "request") \/ r \in Kind("request")
      BY AuditNames DEF Kind, KindOf, Shapes, Same
    <2> QED BY <1>4, <2>1 DEF AuditInv
  <1>10. ASSUME NEW c \in Calls
         PROVE  TestIs(c)'
    <2>1. call'[c].pc \notin TestPcs => TestIs(c)'
      BY AuditNames DEF TestIs
    <2> QED BY <1>5, <2>1
  <1>11. ASSUME NEW S, IsFiniteSet(S), NEW e, e \notin S
         PROVE  /\ IsFiniteSet(S \cup {e})
                /\ Cardinality(S \cup {e}) = Cardinality(S) + 1
    BY <1>11, FS_AddElement
  <1>12. AuditCounts'
    <2>1. {document'[e].of : e \in Kind("audit")'} = Recorded'
      <3>1. {document[e].of : e \in Kind("audit")} = Recorded
        BY DEF AuditInv, AuditCounts
      <3> QED BY <1>2, <1>3, <1>4, <3>1
    <2>2. PICK R, A, S : R = Recorded /\ A = Kind("audit") /\ S = Resolved
      OBVIOUS
    <2>3. /\ IsFiniteSet(R) /\ IsFiniteSet(A) /\ IsFiniteSet(S)
          /\ Cardinality(A) = Cardinality(R) + Cardinality(S)
      BY <2>2 DEF AuditInv, AuditCounts
    <2>4. /\ Cardinality(R) \in Nat /\ Cardinality(S) \in Nat
      BY <2>3, FS_CardinalityType
    <2>5. /\ IsFiniteSet(A \cup {b}) /\ IsFiniteSet(R \cup {d})
          /\ Cardinality(A \cup {b}) = Cardinality(A) + 1
          /\ Cardinality(R \cup {d}) = Cardinality(R) + 1
      BY <1>2, <1>3, <1>11, <2>2, <2>3
    <2> QED BY <1>2, <1>3, <1>8, <2>1, <2>2, <2>3, <2>4, <2>5 DEF AuditCounts
  <1> QED BY <1>5, <1>7, <1>9, <1>10, <1>12 DEF AuditInv

LEMMA AuditFramed ==
  ASSUME Shapes, Shapes', AuditInv, \A d : KindOf(d) \in AuditMine => Same(d),
         \A c \in Calls : call'[c].pc \in TestPcs =>
                            call'[c] = call[c] \/ TestIs(c)'
  PROVE  AuditInv' /\ Standing
  <1>1. ASSUME NEW k \in AuditMine
        PROVE  /\ Kind(k)' = Kind(k)
               /\ \A d \in Kind(k) : document'[d] = document[d]
    BY KindKept
  <1>2. /\ \A k \in {"request", "audit", "appeal"} : Kind(k)' = Kind(k)
        /\ \A d \in Kind("request") \cup Kind("audit") : document'[d] = document[d]
        /\ \A a \in Appeals : document'[a] = document[a]
    BY <1>1, AuditNames DEF Appeals
  <1>3. /\ \A a \in Appeals : AppealIs(a)'
        /\ Resolved' \cap Appeals = Resolved
        /\ Standing
        /\ \A c \in Calls : call'[c] = call[c] => TestIs(c)'
    BY <1>2, AppealsKept DEF AppealKept
  <1>4. Appeals' = Appeals /\ Resolved' = Resolved
    BY <1>2, <1>3 DEF Appeals, Resolved
  <1>5. Recorded' = Recorded
    BY AuditNames DEF Recorded, Shapes, KindOf, Same
  <1>6. AuditCounts'
    <2>1. {document'[e].of : e \in Kind("audit")} = {document[e].of : e \in Kind("audit")}
      BY <1>2
    <2> QED BY <1>2, <1>4, <1>5, <2>1 DEF AuditInv, AuditCounts
  <1>7. \A c \in Calls : TestIs(c)'
    BY <1>3, AuditNames DEF TestIs
  <1> QED BY <1>2, <1>3, <1>4, <1>6, <1>7 DEF AuditInv

LEMMA AuditReads ==
  ASSUME Shapes, Shapes', AuditInv, NEW c \in Calls, WorkspaceReads(c)
  PROVE  AuditInv' /\ Standing
  <1>1. ASSUME NEW next, Read(c, next),
               /\ next.pc = "create_test_request" =>
                    /\ next.request = TestRequest(next.request[2])
                    /\ next.lab \in Laboratories
                    /\ next.appeal # NoId => Appeal(next.appeal) \in Appeals
               /\ next.pc = "resolve_appeal" =>
                    /\ next.op # NoId /\ next.appeal \in Appeals
                    /\ next.lab \notin {NoId, document[next.appeal].primary}
        PROVE  AuditInv' /\ Standing
    <2>1. (\A d : Same(d)) /\ Moved(c, next)
      BY <1>1, ReadIs DEF Shapes
    <2>2. /\ Appeals' = Appeals
          /\ \A a \in Appeals : document'[a] = document[a]
      BY <2>1, KindSame DEF Appeals, Same, Kind
    <2>3. TestIs(c)'
      BY <1>1, <2>1, <2>2 DEF TestIs, Moved
    <2>4. \A d \in Calls \ {c} : call'[d] = call[d]
      BY <2>1 DEF Moved
    <2> QED BY <2>1, <2>3, <2>4, AuditFramed
  <1>2. ASSUME NEW op, NEW s, NEW type, NEW seal,
               AppendOdlaChainOfCustodyEvent(c, op, s, type, seal)
        PROVE  AuditInv' /\ Standing
    BY <1>1, <1>2 DEF AppendOdlaChainOfCustodyEvent
  <1>3. ASSUME NEW op, NEW i, NEW lab \in Laboratories, NEW a,
               CreateOdlaTestRequest(c, op, i, lab, a)
        PROVE  AuditInv' /\ Standing
    <2>1. a # NoId => Appeal(a) \in Appeals
      BY <1>3 DEF CreateOdlaTestRequest, Exists, Appeals, Kind, Appeal
    <2>2. PICK r : r = TestRequest(i) /\ r = TestRequest(r[2])
      BY AuditNames
    <2>3. Read(c, [pc |-> "create_test_request", op |-> op, request |-> r,
                   lab |-> lab, appeal |-> a])
      BY <1>3, <2>2 DEF CreateOdlaTestRequest
    <2> QED BY <1>1, <2>1, <2>2, <2>3
  <1>4. ASSUME NEW op, NEW i, NEW final, NEW r,
               AdjudicateOdlaFinding(c, op, i, final, r)
        PROVE  AuditInv' /\ Standing
    <2>1. PICK x, y, z : Read(c, [pc |-> "adjudicate_finding", op |-> op,
                                  finding |-> x, final |-> y, primary |-> z])
      BY <1>4 DEF AdjudicateOdlaFinding
    <2> QED BY <1>1, <2>1
  <1>5. ASSUME NEW op, op # NoId, NEW i, NEW conflict, NEW final,
               ResolveOdlaAppeal(c, op, i, conflict, final)
        PROVE  AuditInv' /\ Standing
    <2>1. PICK a, lab, state, y :
            /\ a = Appeal(i)
            /\ lab = document[TestRequest(document[Appeal(i)].request)].lab
            /\ Read(c, [pc |-> "resolve_appeal", op |-> op, appeal |-> a,
                        lab |-> lab, state |-> state, final |-> y])
      BY <1>5 DEF ResolveOdlaAppeal
    <2>2. /\ Exists(a) /\ document[a].primary # lab
          /\ document[a].request # NoId
      BY <1>5, <2>1 DEF ResolveOdlaAppeal
    <2>3. a \in Appeals /\ AppealIs(a)
      BY <2>1, <2>2 DEF Exists, Appeals, Kind, Appeal, AuditInv
    <2>4. lab \in Laboratories /\ lab # NoId
      BY <2>1, <2>2, <2>3, NoIdAssumption DEF AppealIs, AuditInv
    <2> QED BY <1>1, <1>5, <2>1, <2>2, <2>3, <2>4
  <1>6. \A action : \A op \in Operations(action) : op # NoId
    BY DEF Operations, NoId
  <1> QED BY <1>2, <1>3, <1>4, <1>5, <1>6, Zenon DEF WorkspaceReads

\* The records that are made with their audit events.
LEMMA AuditWrites ==
  ASSUME Shapes, Shapes', AuditInv, CustodyInv, NEW c \in Calls,
         \/ \E op : CreateOdlaVerificationCase(op)
         \/ AppendCustodyEvent(c)
         \/ CreateTestRequest(c)
         \/ \E op, i, r : RecordOdlaTestResult(op, i, r)
         \/ WriteFinding(c)
         \/ \E op, i, f : OpenOdlaAppeal(op, i, f)
  PROVE  AuditInv' /\ Standing
  <1>1. DOMAIN call = Calls /\ WorkspaceCall(call[c]) /\ TestIs(c)
    BY DEF Shapes, Shape, AuditInv
  <1>2. ASSUME NEW d, NEW action, NEW op, NEW x, Unrecorded(d, action, op),
               KindOf(d) \in {"case", "finding", "result"},
               document' = Record(d, action, op, x) @@ document,
               UNCHANGED call \/ Moved(c, Idle)
        PROVE  AuditInv' /\ Standing
    <2>1. PICK b, y : /\ b = Audit(action, op) /\ y = [op |-> op] @@ x
                      /\ document' = d :> y @@ b :> [of |-> d] @@ document
      BY <1>2, Zenon DEF Record
    <2>2. /\ KindOf(b) = "audit" /\ d # b /\ KindOf(d) \in RecordKinds
          /\ d \notin DOMAIN document /\ b \notin DOMAIN document
      BY <1>2, <2>1, WorkspaceNames, AuditNames DEF Unrecorded, Exists
    <2>3. /\ d \in DOMAIN document' /\ b \in DOMAIN document'
          /\ document'[b] = [of |-> d]
          /\ \A e : e # d /\ e # b => Same(e)
      BY <2>1, <2>2, Write2
    <2>4. \A a \in Appeals : AppealKept(a)
      BY <1>2, <2>2, <2>3 DEF AppealKept, Same, Appeals, Kind
    <2>5. \A e \in Calls : call'[e].pc \in TestPcs => call'[e] = call[e]
      BY <1>2, AuditNames DEF Moved, Idle
    <2> QED BY <1>2, <2>2, <2>3, <2>4, <2>5, AuditRecord DEF Same
  <1>3. ASSUME NEW op, CreateOdlaVerificationCase(op)
        PROVE  AuditInv' /\ Standing
    BY <1>2, <1>3, WorkspaceNames DEF CreateOdlaVerificationCase, Transact
  <1>4. ASSUME NEW op, NEW i, NEW r, RecordOdlaTestResult(op, i, r)
        PROVE  AuditInv' /\ Standing
    BY <1>2, <1>4, WorkspaceNames DEF RecordOdlaTestResult, Transact
  <1>5. ASSUME WriteFinding(c)
        PROVE  AuditInv' /\ Standing
    <2>1. PICK x :
            Commit(c, Record(call[c].finding, "adjudicate_finding", call[c].op, x))
      BY <1>5, Zenon DEF WriteFinding
    <2>2. /\ KindOf(call[c].finding) = "finding"
          /\ Unrecorded(call[c].finding, "adjudicate_finding", call[c].op)
      BY <1>1, <1>5 DEF WriteFinding, WorkspaceCall
    <2> QED BY <1>1, <1>2, <2>1, <2>2, CommitIs
  <1>6. ASSUME AppendCustodyEvent(c)
        PROVE  AuditInv' /\ Standing
    <2>1. PICK d, b, s, x, y, z, u :
            /\ d = call[c].event /\ b = Audit("append_custody", call[c].op)
            /\ s = Sample(d[2]) /\ y = [of |-> d]
            /\ Commit(c, d :> x @@ b :> y @@ s :> z @@ Case :> u)
      BY <1>6, Zenon DEF AppendCustodyEvent, Record
    <2>2. /\ KindOf(d) = "event" /\ KindOf(b) = "audit" /\ KindOf(s) = "sample"
          /\ KindOf(Case) = "case" /\ KindOf(d) \in RecordKinds
          /\ d \notin DOMAIN document /\ b \notin DOMAIN document
          /\ Case \in DOMAIN document
      <3>1. AppendIs(c)
        BY DEF CustodyInv
      <3> QED
        BY <1>1, <1>6, <2>1, <3>1, WorkspaceNames, AuditNames
        DEF AppendCustodyEvent, WorkspaceCall, AppendIs, Unrecorded, Exists
    <2>3. /\ document' = d :> x @@ b :> y @@ s :> z @@ Case :> u @@ document
          /\ Moved(c, Idle)
      BY <1>1, <2>1, CommitIs
    <2>4. /\ d # b /\ d # s /\ d # Case /\ b # s /\ b # Case /\ s # Case
      BY <2>2
    <2>5. /\ d \in DOMAIN document' /\ b \in DOMAIN document'
          /\ Case \in DOMAIN document' /\ document'[b] = y
          /\ \A e : e # d /\ e # b /\ e # s /\ e # Case => Same(e)
      BY <2>3, <2>4, Write4
    <2>6. \A a \in Appeals : AppealKept(a)
      BY <2>2, <2>5, KindIs DEF AppealKept, Same, Appeals, Kind
    <2>7. \A e \in Calls : call'[e].pc \in TestPcs => call'[e] = call[e]
      BY <2>3, AuditNames DEF Moved, Idle
    <2>8. \A e : KindOf(e) \in AuditMine => e # s
      BY <2>2, AuditNames
    <2> QED
      BY <2>1, <2>2, <2>5, <2>6, <2>7, <2>8, AuditRecord DEF Same
  <1>7. ASSUME CreateTestRequest(c)
        PROVE  AuditInv' /\ Standing
    <2>1. PICK d, b, x, y :
            /\ d = call[c].request
            /\ b = Audit("create_test_request", call[c].op)
            /\ x = [op |-> call[c].op] @@ [lab |-> call[c].lab,
                                           appeal |-> call[c].appeal]
            /\ y = [of |-> d]
      OBVIOUS
    <2>2. x.lab = call[c].lab
      BY <2>1 DEF @@
    <2>3. /\ KindOf(d) = "request" /\ KindOf(b) = "audit" /\ d # b
          /\ KindOf(d) \in RecordKinds
          /\ d \notin DOMAIN document /\ b \notin DOMAIN document
          /\ call[c].lab \in Laboratories /\ d = TestRequest(d[2])
          /\ call[c].appeal # NoId => Appeal(call[c].appeal) \in Appeals
      BY <1>1, <1>7, <2>1, WorkspaceNames, AuditNames
      DEF CreateTestRequest, WorkspaceCall, TestIs, Unrecorded, Exists
    <2>4. CASE call[c].appeal = NoId
      <3>1. Commit(c, d :> x @@ b :> y)
        BY <1>7, <2>1, <2>4, Zenon DEF CreateTestRequest, Record
      <3>2. document' = d :> x @@ b :> y @@ document /\ Moved(c, Idle)
        BY <1>1, <3>1, CommitIs
      <3>3. /\ d \in DOMAIN document' /\ b \in DOMAIN document'
            /\ document'[d] = x /\ document'[b] = y
            /\ \A e : e # d /\ e # b => Same(e)
        BY <2>3, <3>2, Write2
      <3>4. \A a \in Appeals : AppealKept(a)
        BY <2>3, <3>3 DEF AppealKept, Same, Appeals, Kind
      <3>5. \A e \in Calls : call'[e].pc \in TestPcs => call'[e] = call[e]
        BY <3>2, AuditNames DEF Moved, Idle
      <3> QED BY <2>1, <2>2, <2>3, <3>3, <3>4, <3>5, AuditRecord DEF Same
    <2>5. CASE call[c].appeal # NoId
      <3>1. PICK a, z : /\ a = Appeal(call[c].appeal)
                        /\ z = [document[a] EXCEPT !.request = d[2]]
                        /\ Commit(c, d :> x @@ b :> y @@ a :> z)
        BY <1>7, <2>1, <2>5, Zenon DEF CreateTestRequest, Record
      <3>2. document' = d :> x @@ b :> y @@ a :> z @@ document /\ Moved(c, Idle)
        BY <1>1, <3>1, CommitIs
      <3>3. /\ KindOf(a) = "appeal" /\ d # a /\ b # a /\ a \in Appeals
            /\ a \in DOMAIN document
        BY <2>3, <2>5, <3>1, WorkspaceNames DEF Appeals, Kind
      <3>4. /\ d \in DOMAIN document' /\ b \in DOMAIN document'
            /\ document'[d] = x /\ document'[b] = y
            /\ a \in DOMAIN document' /\ document'[a] = z
            /\ \A e : e # d /\ e # b /\ e # a => Same(e)
        BY <2>3, <3>2, <3>3, Write3
      <3>5. TestRequest(d[2]) \in Kind("request")'
        BY <2>3, <3>4, AuditNames DEF Kind, TestRequest
      <3>6. \A e \in Appeals : AppealKept(e)
        BY <2>3, <3>1, <3>4, <3>5 DEF AppealKept, Same, Appeals, Kind
      <3>7. \A e \in Calls : call'[e].pc \in TestPcs => call'[e] = call[e]
        BY <3>2, AuditNames DEF Moved, Idle
      <3> QED
        BY <2>1, <2>2, <2>3, <3>3, <3>4, <3>6, <3>7, AuditRecord DEF Same
    <2> QED BY <2>4, <2>5
  <1>8. ASSUME NEW op, NEW i, NEW f, OpenOdlaAppeal(op, i, f)
        PROVE  AuditInv' /\ Standing
    <2>1. PICK d, b, x, y :
            /\ d = Appeal(i) /\ b = Audit("open_appeal", op) /\ y = [of |-> d]
            /\ x = [op |-> op] @@
                   [finding |-> f, primary |-> document[Finding(f)].primary,
                    state |-> "opened", request |-> NoId, lab |-> NoId,
                    final |-> FALSE, resolution |-> NoId]
      OBVIOUS
    <2>2. /\ x = [e \in AppealFields |-> x[e]]
          /\ x.request = NoId /\ x.resolution = NoId
      BY <2>1 DEF @@, AppealFields
    <2>3. /\ KindOf(d) = "appeal" /\ KindOf(b) = "audit" /\ d # b
          /\ KindOf(d) \in RecordKinds /\ KindOf(d) # "request"
          /\ d \notin DOMAIN document /\ b \notin DOMAIN document
      BY <1>8, <2>1, WorkspaceNames, AuditNames
      DEF OpenOdlaAppeal, Unrecorded, Exists
    <2>4. document' = d :> x @@ b :> y @@ document /\ UNCHANGED call
      BY <1>8, <2>1, Zenon DEF OpenOdlaAppeal, Record, Transact
    <2>5. /\ d \in DOMAIN document' /\ b \in DOMAIN document'
          /\ document'[d] = x /\ document'[b] = y
          /\ \A e : e # d /\ e # b => Same(e)
      BY <2>3, <2>4, Write2
    <2>6. \A a \in Appeals : AppealKept(a)
      BY <2>3, <2>5 DEF AppealKept, Same, Appeals, Kind
    <2>7. AppealIs(d)' /\ document'[d].resolution = NoId
      BY <2>2, <2>5 DEF AppealIs
    <2>8. y.of = d
      BY <2>1
    <2>9. document'[b].of = d
      BY <2>5, <2>8
    <2>10. /\ \A e : KindOf(e) \in AuditMine /\ e # d /\ e # b =>
                      (e \in DOMAIN document' <=> e \in DOMAIN document)
           /\ \A e : KindOf(e) \in {"audit", "request"} /\ e # d /\ e # b =>
                      Same(e)
           /\ \A e \in Calls : call'[e].pc \in TestPcs => call'[e] = call[e]
      BY <2>4, <2>5 DEF Same
    <2> QED BY <2>3, <2>5, <2>6, <2>7, <2>9, <2>10, AuditRecord, Zenon
  <1> QED BY <1>3, <1>4, <1>5, <1>6, <1>7, <1>8

\* Of an appeal the first resolution is the one.
LEMMA AuditResolve ==
  ASSUME Shapes, Shapes', AuditInv, NEW c \in Calls, ResolveAppeal(c)
  PROVE  AuditInv' /\ Standing
  <1>1. PICK a, b, op, x, y, z :
          /\ a = call[c].appeal /\ op = call[c].op /\ x = document[a]
          /\ b = Audit("resolve_appeal", op) /\ z = [of |-> a]
          /\ y = [x EXCEPT !.state = call[c].state, !.lab = call[c].lab,
                           !.final = call[c].final, !.resolution = op]
    OBVIOUS
  <1>2. /\ TestIs(c) /\ call[c].pc = "resolve_appeal"
        /\ x.resolution = NoId /\ b \notin DOMAIN document
        /\ Commit(c, a :> y @@ b :> z)
    <2>1. Commit(c, a :> y @@ b :> z)
      BY <1>1, Zenon DEF ResolveAppeal
    <2> QED BY <1>1, <2>1 DEF AuditInv, ResolveAppeal, Unresolved, Exists
  <1>3. /\ op # NoId /\ a \in Appeals /\ call[c].lab \notin {NoId, x.primary}
        /\ AppealIs(a) /\ KindOf(a) = "appeal" /\ KindOf(b) = "audit"
        /\ a # b /\ a \in DOMAIN document
    BY <1>1, <1>2, KindIs, WorkspaceNames DEF TestIs, AuditInv, Appeals, Kind
  <1>4. document' = a :> y @@ b :> z @@ document /\ Moved(c, Idle)
    BY <1>2, CommitIs DEF Shapes
  <1>5. /\ a \in DOMAIN document' /\ document'[a] = y
        /\ b \in DOMAIN document' /\ document'[b] = z
        /\ \A d : d # a /\ d # b => Same(d)
    BY <1>3, <1>4, Write2
  <1>6. /\ y = [f \in AppealFields |-> y[f]]
        /\ y.request = x.request /\ y.primary = x.primary
        /\ y.lab = call[c].lab /\ y.resolution = op
    <2>1. x = [f \in AppealFields |-> x[f]]
      BY <1>1, <1>3 DEF AppealIs
    <2> QED BY <1>1, <2>1 DEF AppealFields
  <1>7. /\ Kind("audit")' = Kind("audit") \cup {b} /\ b \notin Kind("audit")
        /\ Kind("request")' = Kind("request")
        /\ Appeals' = Appeals
    <2>1. Kind("audit")' = Kind("audit") \cup {b}
      BY <1>3, <1>5, KindWith
    <2>2. Kind("request")' = Kind("request")
      BY <1>3, <1>5, KindSame
    <2>3. Appeals' = Appeals \cup {a}
      BY <1>3, <1>5, KindWith DEF Appeals
    <2> QED BY <1>2, <1>3, <2>1, <2>2, <2>3 DEF Kind
  <1>8. /\ \A d \in Kind("audit") \cup Kind("request") : document'[d] = document[d]
        /\ \A d \in Appeals : d # a => document'[d] = document[d]
    BY <1>2, <1>3, <1>5, KindIs DEF Same, Kind, Appeals
  <1>9. Recorded' = Recorded
    BY <1>3, <1>5, AuditNames DEF Recorded, Same, KindOf, Shapes
  <1>10. Resolved' = Resolved \cup {a} /\ a \notin Resolved
    <2>1. document[a].resolution = NoId /\ document'[a].resolution # NoId
      BY <1>1, <1>2, <1>3, <1>5, <1>6
    <2>2. \A d \in Appeals : d # a =>
            document'[d].resolution = document[d].resolution
      BY <1>8
    <2> QED BY <1>3, <1>7, <2>1, <2>2 DEF Resolved
  <1>11. ASSUME NEW d \in Appeals
         PROVE  AppealIs(d)'
    <2>1. CASE d = a
      <3>1. /\ Audit("resolve_appeal", y.resolution) \in Kind("audit")'
            /\ document'[Audit("resolve_appeal", y.resolution)].of = a
        BY <1>1, <1>5, <1>6, <1>7
      <3>2. y.lab \notin {NoId, y.primary}
        BY <1>3, <1>6
      <3>3. y.request # NoId => TestRequest(y.request) \in Kind("request")'
        BY <1>1, <1>3, <1>6, <1>7 DEF AppealIs
      <3> QED BY <1>5, <1>6, <2>1, <3>1, <3>2, <3>3 DEF AppealIs
    <2>2. CASE d # a
      BY <1>7, <1>8, <2>2 DEF AuditInv, AppealIs
    <2> QED BY <2>1, <2>2
  <1>12. \A d \in Appeals : document'[d].primary = document[d].primary
    BY <1>1, <1>5, <1>6, <1>8
  <1>13. ASSUME NEW d \in Calls
         PROVE  TestIs(d)'
    <2>1. CASE d = c
      BY <1>4, <2>1 DEF TestIs, Moved, Idle
    <2>2. CASE d # c
      BY <1>4, <1>7, <1>12, <2>2 DEF TestIs, Moved, AuditInv
    <2> QED BY <2>1, <2>2
  <1>14. Standing
    <2>1. ASSUME NEW d \in Resolved
          PROVE  /\ d \in DOMAIN document'
                 /\ document'[d] = [document[d] EXCEPT
                                      !.request = document'[d].request]
      <3>1. d \in Appeals /\ d # a
        BY <1>10 DEF Resolved
      <3>2. document'[d] = document[d] /\ d \in DOMAIN document'
        BY <1>7, <1>8, <3>1 DEF Appeals, Kind
      <3> QED BY <3>1, <3>2, AppealStands DEF AppealKept, AuditInv
    <2> QED BY <2>1 DEF Standing
  <1>15. AuditCounts'
    <2>1. {document'[e].of : e \in Kind("audit")'} = Recorded'
      <3>1. {document[e].of : e \in Kind("audit")} = Recorded
        BY DEF AuditInv, AuditCounts
      <3>2. a \in Recorded
        BY <1>3, AuditNames DEF Recorded, KindOf, Shapes
      <3>3. document'[b].of = a
        BY <1>1, <1>5
      <3> QED BY <1>7, <1>8, <1>9, <3>1, <3>2, <3>3
    <2>2. PICK R, A, S : R = Recorded /\ A = Kind("audit") /\ S = Resolved
      OBVIOUS
    <2>3. /\ IsFiniteSet(R) /\ IsFiniteSet(A) /\ IsFiniteSet(S)
          /\ Cardinality(A) = Cardinality(R) + Cardinality(S)
      BY <2>2 DEF AuditInv, AuditCounts
    <2>4. Cardinality(R) \in Nat /\ Cardinality(S) \in Nat
      BY <2>3, FS_CardinalityType
    <2>5. /\ IsFiniteSet(A \cup {b}) /\ Cardinality(A \cup {b}) = Cardinality(A) + 1
      BY <1>7, <2>2, <2>3, FS_AddElement
    <2>6. /\ IsFiniteSet(S \cup {a}) /\ Cardinality(S \cup {a}) = Cardinality(S) + 1
      BY <1>10, <2>2, <2>3, FS_AddElement
    <2> QED
      BY <1>7, <1>9, <1>10, <2>1, <2>2, <2>3, <2>4, <2>5, <2>6 DEF AuditCounts
  <1>16. \A r \in Kind("request") : document'[r].lab \in Laboratories
    BY <1>8 DEF AuditInv
  <1> QED BY <1>7, <1>11, <1>13, <1>14, <1>15, <1>16 DEF AuditInv

LEMMA AuditStep ==
  ASSUME Shapes, Shapes', AuditInv, CustodyInv, [PlatformNext]_documentVars
  PROVE  AuditInv' /\ Standing
  <1>1. \/ \E c \in Calls : WorkspaceNext(c)
        \/ Frame(AuditMine, TestPcs)
    <2> DEFINE Apart(kinds, pcs) ==
                 /\ kinds \cap AuditMine = {} /\ pcs \cap TestPcs = {}
    <2>1. /\ Apart(DetectiveKinds, DetectivePcs) /\ Apart(RiskKinds, RiskPcs)
          /\ Apart(CasesKinds, CasesPcs) /\ Apart(UploadsKinds, UploadsPcs)
          /\ Apart(SponsorKinds, SponsorPcs) /\ Apart({}, {})
          /\ \A kinds \in {LaboratoriesKinds, TraceabilityKinds, TwinsKinds,
                           PriorityKinds, SupplyKinds, BrandKinds} :
               Apart(kinds, {})
      BY AuditNames
      DEF DetectiveKinds, RiskKinds, CasesKinds, UploadsKinds, SponsorKinds,
          LaboratoriesKinds, TraceabilityKinds, TwinsKinds, PriorityKinds,
          SupplyKinds, BrandKinds, DetectivePcs, RiskPcs, CasesPcs, UploadsPcs,
          SponsorPcs
    <2> HIDE DEF Apart
    <2>2. \/ \E c \in Calls : WorkspaceNext(c)
          \/ \E kinds, pcs : Touches(kinds, pcs) /\ Apart(kinds, pcs)
      BY <2>1, Stepped
    <2>3. "idle" \notin TestPcs
      BY AuditNames
    <2> QED BY <2>2, <2>3, Framed DEF Apart
  <1>2. CASE Frame(AuditMine, TestPcs)
    BY <1>2, AuditFramed DEF Frame
  <1>3. ASSUME NEW c \in Calls, WorkspaceNext(c)
        PROVE  AuditInv' /\ Standing
    <2>1. \/ WorkspaceReads(c)
          \/ ResolveAppeal(c)
          \/ \E op : CreateOdlaVerificationCase(op)
          \/ AppendCustodyEvent(c)
          \/ CreateTestRequest(c)
          \/ \E op, i, r : RecordOdlaTestResult(op, i, r)
          \/ WriteFinding(c)
          \/ \E op, i, f : OpenOdlaAppeal(op, i, f)
      BY <1>3, Zenon DEF WorkspaceNext
    <2> QED BY <2>1, AuditReads, AuditResolve, AuditWrites, Zenon
  <1> QED BY <1>1, <1>2, <1>3

LEMMA AuditInit == DocumentsInit => CustodyInv /\ AuditInv
  <1> SUFFICES ASSUME DocumentsInit
               PROVE  CustodyInv /\ AuditInv
    OBVIOUS
  <1>1. /\ DOMAIN document = {} /\ \A k : Kind(k) = {}
        /\ \A c \in Calls : call[c] = Idle
    BY DEF DocumentsInit, Kind
  <1>2. Recorded = {} /\ Appeals = {} /\ Resolved = {}
    BY <1>1 DEF Recorded, Appeals, Resolved
  <1>3. IsFiniteSet({}) /\ Cardinality({}) = 0
    BY FS_EmptySet
  <1>4. AuditInv
    <2>1. Kind("audit") = {}
      BY <1>1
    <2>2. {document[e].of : e \in Kind("audit")} = Recorded
      BY <1>2, <2>1
    <2>3. /\ Cardinality(Kind("audit")) = 0 /\ Cardinality(Recorded) = 0
          /\ Cardinality(Resolved) = 0
      BY <1>2, <1>3, <2>1
    <2>4. AuditCounts
      BY <1>2, <1>3, <2>1, <2>2, <2>3 DEF AuditCounts
    <2>5. \A c \in Calls : TestIs(c)
      BY <1>1 DEF TestIs, Idle
    <2> QED BY <1>1, <1>2, <2>4, <2>5 DEF AuditInv
  <1>5. ASSUME NEW s \in Samples
        PROVE  SampleIs(s)
    <2>1. Sequence(s) = 0 /\ Head(s) = <<>>
      BY <1>1 DEF Sequence, Head, Exists
    <2>2. EventsOfSample(s) = {}
      BY <1>1 DEF EventsOfSample
    <2> QED BY <1>3, <2>1, <2>2 DEF SampleIs
  <1> QED
    BY <1>1, <1>4, <1>5 DEF CustodyInv, HeadIs, AppendIs, Idle, Exists

\* The books of the authorities are whole: the custody of every sample is one
\* chain, every record of the workspace has its audit event, and the registry
\* of laboratories is told by its events.
THEOREM AuthoritiesHold == PlatformSpec => []AuthoritiesWhole
  <1> DEFINE Inv == Shapes /\ CustodyInv /\ AuditInv /\ RegistryInv
  <1>1. DocumentsInit => Inv
    <2> SUFFICES ASSUME DocumentsInit
                 PROVE  Inv
      OBVIOUS
    <2>1. Shapes
      BY IdleShape DEF DocumentsInit, Shapes, Kind
    <2>2. \A k : Kind(k) = {}
      BY DEF DocumentsInit, Kind
    <2>3. RegistryInv
      BY <2>2, FS_EmptySet DEF RegistryInv, RegistryAudits, Entities
    <2> QED BY <2>1, <2>3, AuditInit
  <1>2. Inv /\ [PlatformNext]_documentVars => Inv'
    BY ShapesStep, CustodyStep, AuditStep, RegistryStep
  <1>3. Inv => AuthoritiesWhole
    BY CustodyMeans, AuditMeans, RegistryMeans DEF AuthoritiesWhole
  <1> QED BY <1>1, <1>2, <1>3, PTL DEF PlatformSpec

\* The outcome of an appeal is decided once, by a second laboratory, whatever
\* calls had read the appeal before.
THEOREM ResolutionHolds == PlatformSpec => ResolutionStands
  <1> DEFINE Inv == Shapes /\ CustodyInv /\ AuditInv
             A == \A a \in {d \in DOMAIN document' : d[1] = "appeal"} :
                    /\ document'[a].resolution # NoId =>
                         document'[a].lab \notin {NoId, document'[a].primary}
                    /\ a \in Resolved =>
                         document'[a] = [document[a] EXCEPT
                           !.request = document'[a].request]
  <1>1. DocumentsInit => Inv
    BY AuditInit, IdleShape DEF DocumentsInit, Shapes, Kind
  <1>2. Inv /\ [PlatformNext]_documentVars => Inv' /\ [A]_documentVars
    <2> SUFFICES ASSUME Inv, [PlatformNext]_documentVars
                 PROVE  Inv' /\ A
      OBVIOUS
    <2>1. Inv' /\ Standing
      BY ShapesStep, CustodyStep, AuditStep
    <2>2. \A a \in {d \in DOMAIN document' : d[1] = "appeal"} : AppealIs(a)'
      BY <2>1 DEF AuditInv, Appeals, Kind
    <2> QED BY <2>1, <2>2 DEF AppealIs, Standing
  <1> QED BY <1>1, <1>2, PTL DEF PlatformSpec, ResolutionStands

-----------------------------------------------------------------------------
(* The digital detective.                                                  *)

LEMMA Write5 ==
  ASSUME NEW a, NEW x, NEW b, NEW y, NEW e, NEW z, NEW f, NEW u, NEW g, NEW v,
         a # b, a # e, b # e, a # f, b # f, e # f, a # g, b # g, e # g, f # g,
         document' = a :> x @@ b :> y @@ e :> z @@ f :> u @@ g :> v @@ document
  PROVE  /\ a \in DOMAIN document' /\ document'[a] = x
         /\ b \in DOMAIN document' /\ document'[b] = y
         /\ e \in DOMAIN document' /\ document'[e] = z
         /\ f \in DOMAIN document' /\ document'[f] = u
         /\ g \in DOMAIN document' /\ document'[g] = v
         /\ \A d : d # a /\ d # b /\ d # e /\ d # f /\ d # g => Same(d)
  BY DEF Same, @@, :>

LEMMA DetectiveIds ==
  /\ DetectivePcs = {"dispatch", "caught", "record"}
  /\ NoExecution = 0
  /\ \A o : SourceOperation(DetectiveTask(o)) = o
  /\ \A t, x, a, u, y, b : AgentResult(t, x, a) = AgentResult(u, y, b) =>
                             t = u /\ x = y /\ a = b
  /\ \A t, x, u, y : Execution(t, x) = Execution(u, y) => t = u /\ x = y
  /\ \A t, x, a : /\ AgentResult(t, x, a)[2] = t /\ AgentResult(t, x, a)[3] = x
                  /\ Execution(t, x)[2] = t /\ Execution(t, x)[3] = x
  BY DEF DetectivePcs, NoExecution, SourceOperation, DetectiveTask, AgentResult,
     Execution

\* What agents have reported, of an execution that there is.
ResultIs(d) ==
    /\ d = AgentResult(d[2], d[3], d[4])
    /\ d[2] \in DetectiveTasks /\ d[3] # NoExecution
    /\ document[d].status \in {"completed", "failed"}
    /\ Execution(d[2], d[3]) \in Kind("execution")

ExecutionIs(e) ==
    LET x == document[e] IN
    /\ e = Execution(e[2], e[3])
    /\ x.completed = ResultsOf(e[2], e[3], "completed")
    /\ x.failed = ResultsOf(e[2], e[3], "failed")
    /\ x.status = calculateExecutionStatus(x.completed, x.failed)

ReportedOf(t, x) == ResultsOf(t, x, "completed") \cup ResultsOf(t, x, "failed")

\* What the task says is also what its operation says.
TaskIs(t) ==
    LET x == document[t]
        o == SourceOperation(t) IN
    /\ t = DetectiveTask(o) /\ o \in Kind("submission") \cup Kind("operation")
    /\ DOMAIN x = {"status", "dispatch", "attemptCount", "processed",
                   "execution", "version"}
    /\ x.processed = Cardinality(ReportedOf(t, x.execution))
    /\ x.status = "completed" => x.processed = Cardinality(Agents)
    /\ o[1] = "operation" =>
         /\ document[o].execution = x.execution
         /\ document[o].processed = x.processed
         /\ x.execution # NoExecution =>
              document[o].status = document[Execution(t, x.execution)].status
    /\ x.execution # NoExecution =>
         Execution(t, x.execution) \in Kind("execution")

\* An operation without a task has no results.
OperationIs(o) ==
    DetectiveTask(o) \notin DetectiveTasks =>
      document[o].execution = NoExecution /\ document[o].processed = 0

\* A dispatch that is under way has its task.
DispatchIs(c) ==
    call[c].pc \in DetectivePcs => call[c].task \in DetectiveTasks

DetectiveInv ==
    /\ \A d \in Kind("agentResult") : ResultIs(d)
    /\ \A e \in Kind("execution") : ExecutionIs(e)
    /\ \A t \in DetectiveTasks : TaskIs(t)
    /\ \A o \in Kind("operation") : OperationIs(o)
    /\ \A c \in Calls : DispatchIs(c)

LEMMA DetectiveMeans ==
  ASSUME DetectiveInv
  PROVE  ResultsCounted
  <1>1. ASSUME NEW e \in Kind("execution")
        PROVE  LET done == ResultsOf(e[2], e[3], "completed")
                   failed == ResultsOf(e[2], e[3], "failed") IN
               /\ document[e].completed = done /\ document[e].failed = failed
               /\ document[e].status = "running" <=> done \cup failed # Agents
               /\ document[e].status = "completed" <=> done = Agents
    <2>1. PICK done, failed : /\ done = ResultsOf(e[2], e[3], "completed")
                              /\ failed = ResultsOf(e[2], e[3], "failed")
      OBVIOUS
    <2>2. /\ document[e].completed = done /\ document[e].failed = failed
          /\ document[e].status = calculateExecutionStatus(done, failed)
      BY <2>1 DEF DetectiveInv, ExecutionIs
    <2>3. done \subseteq Agents /\ failed \subseteq Agents /\ done \cap failed = {}
      BY <2>1 DEF ResultsOf
    <2>4. document[e].status = "running" <=> done \cup failed # Agents
      BY <2>2 DEF calculateExecutionStatus
    <2>5. document[e].status = "completed"
            <=> done \cup failed = Agents /\ failed = {}
      BY <2>2 DEF calculateExecutionStatus
    <2>6. (done \cup failed = Agents /\ failed = {}) <=> done = Agents
      BY <2>3
    <2> QED BY <2>1, <2>2, <2>4, <2>5, <2>6
  <1>2. \A t \in DetectiveTasks :
          LET x == document[t].execution
              o == SourceOperation(t)
              reported == ResultsOf(t, x, "completed")
                            \cup ResultsOf(t, x, "failed") IN
          /\ document[t].processed = Cardinality(reported)
          /\ o[1] = "operation" =>
               /\ document[o].execution = x
               /\ document[o].processed = document[t].processed
               /\ x # NoExecution =>
                    document[o].status = document[Execution(t, x)].status
    BY DEF DetectiveInv, TaskIs, ReportedOf
  <1> QED BY <1>1, <1>2, Zenon DEF ResultsCounted

\* Results that are left alone.
LEMMA ResultsSame ==
  ASSUME Shapes, Shapes', NEW t, NEW x,
         \A a : Same(AgentResult(t, x, a))
  PROVE  /\ \A status : ResultsOf(t, x, status)' = ResultsOf(t, x, status)
         /\ ReportedOf(t, x)' = ReportedOf(t, x)
  <1>1. \A status : ResultsOf(t, x, status)' = ResultsOf(t, x, status)
    BY DEF ResultsOf, Same, Exists
  <1> QED BY <1>1 DEF ReportedOf

\* Tasks come, and change but for their results; all else is left alone.
LEMMA TasksChange ==
  ASSUME Shapes, Shapes', DetectiveInv,
         \A d : KindOf(d) \in {"agentResult", "execution"} => Same(d),
         Kind("submission") \subseteq Kind("submission")',
         \A o \in Kind("operation") :
           o \in Kind("operation")' /\ document'[o] = document[o],
         \A o \in Kind("operation")' \ Kind("operation") :
           document'[o].execution = NoExecution /\ document'[o].processed = 0,
         DetectiveTasks \subseteq DetectiveTasks',
         \A t \in DetectiveTasks :
           /\ DOMAIN document'[t] = DOMAIN document[t]
           /\ document'[t].processed = document[t].processed
           /\ document'[t].execution = document[t].execution
           /\ document'[t].status = "completed" =>
                document[t].status = "completed",
         \A t \in DetectiveTasks' \ DetectiveTasks :
           /\ t = DetectiveTask(SourceOperation(t))
           /\ SourceOperation(t) \in Kind("submission")' \cup Kind("operation")
           /\ document'[t] = TaskDocument,
         \A c \in Calls :
           call'[c].pc \in DetectivePcs =>
             call'[c] = call[c] \/ call'[c].task \in DetectiveTasks
  PROVE  DetectiveInv'
  <1>1. ASSUME NEW k \in {"agentResult", "execution"}
        PROVE  /\ Kind(k)' = Kind(k)
               /\ \A d \in Kind(k) : document'[d] = document[d]
    BY KindKept
  <1>0. \A o : o[1] = "operation" => o \notin Kind("submission")'
    BY DEF Kind
  <1>2. \A t, x : /\ \A status : ResultsOf(t, x, status)' = ResultsOf(t, x, status)
                  /\ ReportedOf(t, x)' = ReportedOf(t, x)
    <2>1. \A t, x, a : Same(AgentResult(t, x, a))
      BY DetectiveNames
    <2> QED BY <2>1, ResultsSame
  <1>3. \A d \in Kind("agentResult") : ResultIs(d)'
    BY <1>1 DEF DetectiveInv, ResultIs
  <1>4. \A e \in Kind("execution") : ExecutionIs(e)'
    BY <1>1, <1>2 DEF DetectiveInv, ExecutionIs, calculateExecutionStatus
  <1>5. ASSUME NEW t \in DetectiveTasks
        PROVE  TaskIs(t)'
    <2>1. TaskIs(t)
      BY DEF DetectiveInv
    <2>2. PICK x, y, o : /\ x = document[t] /\ y = document'[t]
                         /\ o = SourceOperation(t)
      OBVIOUS
    <2>3. /\ DOMAIN y = DOMAIN x /\ y.processed = x.processed
          /\ y.execution = x.execution
          /\ y.status = "completed" => x.status = "completed"
      BY <2>2
    <2>4. ReportedOf(t, x.execution)' = ReportedOf(t, x.execution)
      BY <1>2
    <2>5. /\ o \in Kind("submission")' \cup Kind("operation")'
          /\ o[1] = "operation" => document'[o] = document[o]
      BY <2>1, <2>2 DEF TaskIs, Kind
    <2>6. x.execution # NoExecution =>
            /\ Execution(t, x.execution) \in Kind("execution")'
            /\ document'[Execution(t, x.execution)]
                 = document[Execution(t, x.execution)]
      BY <1>1, <2>1, <2>2 DEF TaskIs
    <2>7. /\ t = DetectiveTask(o)
          /\ DOMAIN y = {"status", "dispatch", "attemptCount", "processed",
                         "execution", "version"}
          /\ y.processed = Cardinality(ReportedOf(t, y.execution))'
          /\ y.status = "completed" => y.processed = Cardinality(Agents)
      BY <2>1, <2>2, <2>3, <2>4 DEF TaskIs
    <2>8. o[1] = "operation" =>
            /\ document'[o].execution = y.execution
            /\ document'[o].processed = y.processed
            /\ y.execution # NoExecution =>
                 document'[o].status = document'[Execution(t, y.execution)].status
      BY <2>1, <2>2, <2>3, <2>5, <2>6 DEF TaskIs
    <2> QED BY <2>2, <2>3, <2>5, <2>6, <2>7, <2>8 DEF TaskIs
  <1>6. ASSUME NEW t \in DetectiveTasks' \ DetectiveTasks
        PROVE  TaskIs(t)'
    <2>1. PICK o : o = SourceOperation(t)
      OBVIOUS
    <2>2. \A x, a : AgentResult(t, x, a) \notin DOMAIN document
      <3>1. ASSUME NEW x, NEW a, AgentResult(t, x, a) \in DOMAIN document
            PROVE  FALSE
        <4>1. AgentResult(t, x, a) \in Kind("agentResult")
          BY <3>1 DEF Kind, AgentResult
        <4>2. t \in DetectiveTasks
          BY <4>1, DetectiveIds DEF DetectiveInv, ResultIs
        <4> QED BY <4>2
      <3> QED BY <3>1
    <2>3. ReportedOf(t, NoExecution)' = {}
      <3>1. ReportedOf(t, NoExecution) = {}
        BY <2>2 DEF ReportedOf, ResultsOf, Exists
      <3> QED BY <1>2, <3>1
    <2>4. Cardinality({}) = 0
      BY FS_EmptySet
    <2>5. /\ document'[t].execution = NoExecution /\ document'[t].processed = 0
          /\ document'[t].status = "queued"
          /\ DOMAIN document'[t] = {"status", "dispatch", "attemptCount",
                                    "processed", "execution", "version"}
      BY DEF TaskDocument
    <2>6. o[1] = "operation" =>
            /\ document'[o].execution = NoExecution
            /\ document'[o].processed = 0
      <3>1. DetectiveTask(o) \notin DetectiveTasks
        BY <2>1
      <3>2. o[1] = "operation" => o \in Kind("operation")
        BY <1>0, <2>1
      <3> QED BY <2>1, <3>1, <3>2 DEF DetectiveInv, OperationIs
    <2> QED BY <2>1, <2>3, <2>4, <2>5, <2>6 DEF TaskIs, Kind
  <1>7. \A o \in Kind("operation") : OperationIs(o)'
    BY DEF DetectiveInv, OperationIs
  <1>8. \A c \in Calls : DispatchIs(c)'
    BY DEF DetectiveInv, DispatchIs
  <1>9. \A o \in Kind("operation")' : OperationIs(o)'
    BY <1>7 DEF OperationIs
  <1> QED BY <1>1, <1>3, <1>4, <1>5, <1>6, <1>8, <1>9 DEF DetectiveInv

\* What a dispatch writes of its task, if anything.
LEMMA DispatchWrites ==
  ASSUME Shapes, Shapes', DetectiveInv, NEW c \in Calls,
         NEW t \in DetectiveTasks, NEW w, NEW next, Step(c, w, next),
         \/ w = <<>>
         \/ \E x : /\ w = t :> x /\ DOMAIN x = DOMAIN document[t]
                   /\ x.processed = document[t].processed
                   /\ x.execution = document[t].execution
                   /\ x.status # "completed",
         next.pc \in DetectivePcs => next.task = t
  PROVE  DetectiveInv'
  <1>1. document' = w @@ document /\ Moved(c, next)
    BY StepIs DEF Shapes
  <1>2. KindOf(t) = "detectiveTask" /\ t \in DOMAIN document
    BY KindIs DEF DetectiveTasks, Kind
  <1>3. /\ \A d : d # t => Same(d)
        /\ t \in DOMAIN document'
        /\ \/ document'[t] = document[t]
           \/ /\ DOMAIN document'[t] = DOMAIN document[t]
              /\ document'[t].processed = document[t].processed
              /\ document'[t].execution = document[t].execution
              /\ document'[t].status # "completed"
    <2>1. CASE w = <<>>
      BY <1>1, <1>2, <2>1, WriteNone DEF Same
    <2>2. ASSUME NEW x, w = t :> x, DOMAIN x = DOMAIN document[t],
                 x.processed = document[t].processed,
                 x.execution = document[t].execution, x.status # "completed"
          PROVE  /\ \A d : d # t => Same(d)
                 /\ t \in DOMAIN document' /\ document'[t] = x
      BY <1>1, <2>2, Write1
    <2> QED BY <2>1, <2>2
  <1>4. /\ \A k \in {"submission", "operation"} : Kind(k)' = Kind(k)
        /\ \A o \in Kind("operation") : document'[o] = document[o]
    BY <1>2, <1>3, KindKept
  <1>5. DetectiveTasks' = DetectiveTasks
    <2>1. DetectiveTasks' = DetectiveTasks \cup {t}
      BY <1>2, <1>3, KindWith DEF DetectiveTasks
    <2> QED BY <2>1
  <1>6. \A d \in DetectiveTasks : d # t => document'[d] = document[d]
    BY <1>3 DEF Same, DetectiveTasks, Kind
  <1>7. ASSUME NEW d \in Calls, call'[d].pc \in DetectivePcs
        PROVE  call'[d] = call[d] \/ call'[d].task \in DetectiveTasks
    BY <1>1, <1>7 DEF Moved
  <1>8. \A d : KindOf(d) \in {"agentResult", "execution"} => Same(d)
    BY <1>2, <1>3
  <1> QED BY <1>3, <1>4, <1>5, <1>6, <1>7, <1>8, TasksChange

LEMMA DetectiveDispatch ==
  ASSUME Shapes, Shapes', DetectiveInv, NEW c \in Calls,
         \/ \E t \in DetectiveTasks : ClaimDispatch(c, t)
         \/ WebhookAnswered(c)
         \/ NoToken(c)
         \/ WebhookFailed(c)
         \/ CatchFailure(c)
         \/ RecordFailure(c)
  PROVE  DetectiveInv'
  <1>1. ASSUME NEW t \in DetectiveTasks
        PROVE  /\ DOMAIN document[t]
                    = {"status", "dispatch", "attemptCount", "processed",
                       "execution", "version"}
               /\ DOMAIN Updated(t) = DOMAIN document[t]
               /\ Updated(t).processed = document[t].processed
               /\ Updated(t).execution = document[t].execution
    <2>1. DOMAIN document[t] = {"status", "dispatch", "attemptCount",
                                "processed", "execution", "version"}
      BY DEF DetectiveInv, TaskIs
    <2> QED BY <2>1 DEF Updated
  <1>2. ASSUME NEW t \in DetectiveTasks, ClaimDispatch(c, t)
        PROVE  DetectiveInv'
    <2>1. PICK x, u : /\ u = Updated(t)
                      /\ x = [u EXCEPT !.status = "running",
                                       !.dispatch = "dispatching",
                                       !.attemptCount = @ + 1]
      OBVIOUS
    <2>2. /\ DOMAIN x = DOMAIN document[t] /\ x.status # "completed"
          /\ x.processed = document[t].processed
          /\ x.execution = document[t].execution
      BY <1>1, <2>1
    <2>3. Step(c, t :> x, [pc |-> "dispatch", task |-> t])
      BY <1>2, <2>1 DEF ClaimDispatch, Claim, Step
    <2> QED BY <2>2, <2>3, DispatchWrites
  <1>3. PICK t : t = call[c].task
    OBVIOUS
  <1>4. call[c].pc \in DetectivePcs => t \in DetectiveTasks
    BY <1>3 DEF DetectiveInv, DispatchIs
  <1>5. ASSUME t \in DetectiveTasks
        PROVE  \E x : /\ Failed(t) = t :> x /\ DOMAIN x = DOMAIN document[t]
                      /\ x.processed = document[t].processed
                      /\ x.execution = document[t].execution
                      /\ x.status # "completed"
    <2>1. PICK x, u : /\ u = Updated(t)
                      /\ x = [u EXCEPT !.status = "failed", !.dispatch = "failed"]
      OBVIOUS
    <2>2. /\ DOMAIN x = DOMAIN document[t] /\ x.status # "completed"
          /\ x.processed = document[t].processed
          /\ x.execution = document[t].execution
      BY <1>1, <1>5, <2>1
    <2>3. Failed(t) = t :> x
      BY <2>1 DEF Failed
    <2> QED BY <2>2, <2>3
  <1>6. Idle.pc \notin DetectivePcs
    BY DetectiveIds DEF Idle
  <1>7. ASSUME WebhookAnswered(c)
        PROVE  DetectiveInv'
    <2>1. PICK x, u : /\ u = Updated(t)
                      /\ x = [u EXCEPT !.status = "running",
                                       !.dispatch = "dispatched"]
      OBVIOUS
    <2>2. t \in DetectiveTasks
      BY <1>4, <1>7, DetectiveIds DEF WebhookAnswered
    <2>3. /\ DOMAIN x = DOMAIN document[t] /\ x.status # "completed"
          /\ x.processed = document[t].processed
          /\ x.execution = document[t].execution
      BY <1>1, <2>1, <2>2
    <2>4. Step(c, t :> x, Idle)
      BY <1>3, <1>7, <2>1 DEF WebhookAnswered, Commit
    <2> QED BY <1>6, <2>2, <2>3, <2>4, DispatchWrites
  <1>8. ASSUME NoToken(c) \/ RecordFailure(c)
        PROVE  DetectiveInv'
    <2>1. t \in DetectiveTasks /\ Step(c, Failed(t), Idle)
      BY <1>3, <1>4, <1>8, DetectiveIds DEF NoToken, RecordFailure, Commit
    <2> QED BY <1>5, <1>6, <2>1, DispatchWrites
  <1>9. ASSUME NEW pc
        PROVE  call[c].pc \in DetectivePcs =>
                 [call[c] EXCEPT !.pc = pc].task = t
    <2>1. call[c].pc \in DetectivePcs => call[c] = [pc |-> call[c].pc, task |-> t]
      BY <1>3 DEF Shapes, Shape, DetectiveCall
    <2> QED BY <2>1
  <1>10. ASSUME WebhookFailed(c)
         PROVE  DetectiveInv'
    <2>1. PICK w, next : /\ w \in {Failed(t), <<>>} /\ Step(c, w, next)
                         /\ next = [call[c] EXCEPT !.pc = "caught"]
      BY <1>3, <1>10 DEF WebhookFailed
    <2>2. t \in DetectiveTasks /\ next.task = t
      BY <1>4, <1>9, <1>10, <2>1, DetectiveIds DEF WebhookFailed
    <2> QED BY <1>5, <2>1, <2>2, DispatchWrites
  <1>11. ASSUME CatchFailure(c)
         PROVE  DetectiveInv'
    <2>1. PICK next : /\ Step(c, <<>>, next)
                      /\ next = Idle \/ next = [call[c] EXCEPT !.pc = "record"]
      BY <1>11 DEF CatchFailure, Commit
    <2>2. t \in DetectiveTasks /\ (next = Idle \/ next.task = t)
      BY <1>4, <1>9, <1>11, <2>1, DetectiveIds DEF CatchFailure
    <2> QED BY <1>6, <2>1, <2>2, DispatchWrites
  <1> QED BY <1>2, <1>7, <1>8, <1>10, <1>11

LEMMA DetectiveCreates ==
  ASSUME Shapes, Shapes', DetectiveInv,
         \/ \E s : CreateDigitalDetectiveTask(s)
         \/ \E o : CreateAiFieldOperation(o)
         \/ \E o : AiFieldOperationBridge(o)
  PROVE  DetectiveInv'
  <1>1. ASSUME NEW o, o \notin Kind("submission") \cup Kind("operation")
        PROVE  DetectiveTask(o) \notin DetectiveTasks
    BY <1>1, DetectiveIds DEF DetectiveInv, TaskIs
  <1>2. ASSUME NEW s, CreateDigitalDetectiveTask(s)
        PROVE  DetectiveInv'
    <2>1. PICK a, t, x : /\ a = Submission(s) /\ t = DetectiveTask(a)
                         /\ document' = a :> x @@ t :> TaskDocument @@ document
                         /\ a \notin DOMAIN document /\ UNCHANGED call
      BY <1>2 DEF CreateDigitalDetectiveTask, Transact, Exists
    <2>2. /\ KindOf(a) = "submission" /\ KindOf(t) = "detectiveTask" /\ a # t
          /\ SourceOperation(t) = a
      BY <2>1, DetectiveNames, DetectiveIds
    <2>3. /\ a \in DOMAIN document' /\ t \in DOMAIN document'
          /\ document'[t] = TaskDocument
          /\ \A d : d # a /\ d # t => Same(d)
      BY <2>1, <2>2, Write2
    <2>4. t \notin DetectiveTasks
      BY <1>1, <2>1 DEF Kind
    <2>5. Kind("submission")' = Kind("submission") \cup {a}
      BY <2>2, <2>3, KindWith
    <2>6. DetectiveTasks' = DetectiveTasks \cup {t}
      BY <2>2, <2>3, KindWith DEF DetectiveTasks
    <2>7. /\ Kind("operation")' = Kind("operation")
          /\ \A o \in Kind("operation") : document'[o] = document[o]
      BY <2>2, <2>3, KindKept
    <2>8. \A d : KindOf(d) \in {"agentResult", "execution"} => Same(d)
      BY <2>2, <2>3
    <2>9. \A d \in DetectiveTasks : document'[d] = document[d]
      BY <2>2, <2>3, <2>4, KindIs DEF DetectiveTasks, Same, Kind
    <2> QED
      BY <2>1, <2>2, <2>3, <2>5, <2>6, <2>7, <2>8, <2>9, TasksChange
  <1>3. ASSUME NEW o, CreateAiFieldOperation(o)
        PROVE  DetectiveInv'
    <2>1. PICK a, x, g :
            /\ a = Operation(o) /\ a \notin DOMAIN document
            /\ x = [status |-> "queued", processed |-> 0,
                    execution |-> NoExecution]
            /\ g = [d \in {AgentTask(a, b) : b \in Agents} |->
                      [status |-> "pending"]]
            /\ document' = (a :> x @@ g) @@ document /\ UNCHANGED call
      BY <1>3 DEF CreateAiFieldOperation, Transact, Exists
    <2>2. /\ KindOf(a) = "operation"
          /\ \A d \in DOMAIN g : KindOf(d) = "agentTask"
      BY <2>1, DetectiveNames
    <2>3. /\ a \in DOMAIN document' /\ document'[a] = x
          /\ \A d : d # a /\ d \notin DOMAIN g => Same(d)
      BY <2>1 DEF Same, @@, :>
    <2>4. Kind("operation")' = Kind("operation") \cup {a}
      BY <2>2, <2>3, KindWith
    <2>5. /\ Kind("submission")' = Kind("submission")
          /\ DetectiveTasks' = DetectiveTasks
      BY <2>2, <2>3, KindSame DEF DetectiveTasks
    <2>6. \A d \in DetectiveTasks \cup Kind("operation") :
            document'[d] = document[d]
      <3>1. \A d \in DetectiveTasks \cup Kind("operation") :
              d # a /\ d \notin DOMAIN g /\ d \in DOMAIN document
        BY <2>1, <2>2, KindIs DEF DetectiveTasks, Kind
      <3> QED BY <2>3, <3>1 DEF Same
    <2>7. \A d : KindOf(d) \in {"agentResult", "execution"} => Same(d)
      BY <2>2, <2>3
    <2> QED
      BY <2>1, <2>3, <2>4, <2>5, <2>6, <2>7, TasksChange
  <1>4. ASSUME NEW o, AiFieldOperationBridge(o)
        PROVE  DetectiveInv'
    <2>1. PICK a, t : /\ a = Operation(o) /\ t = DetectiveTask(a)
                      /\ document' = t :> TaskDocument @@ document
                      /\ a \in DOMAIN document /\ t \notin DOMAIN document
                      /\ UNCHANGED call
      BY <1>4 DEF AiFieldOperationBridge, Transact, Exists
    <2>2. /\ a \in Kind("operation") /\ KindOf(t) = "detectiveTask"
          /\ SourceOperation(t) = a
      BY <2>1, DetectiveNames, DetectiveIds DEF Kind, Operation
    <2>3. /\ t \in DOMAIN document' /\ document'[t] = TaskDocument
          /\ \A d : d # t => Same(d)
      BY <2>1, Write1
    <2>4. DetectiveTasks' = DetectiveTasks \cup {t}
      BY <2>2, <2>3, KindWith DEF DetectiveTasks
    <2>5. /\ Kind("operation")' = Kind("operation")
          /\ Kind("submission")' = Kind("submission")
          /\ \A d \in Kind("operation") : document'[d] = document[d]
      BY <2>2, <2>3, KindKept
    <2>6. \A d \in DetectiveTasks : document'[d] = document[d]
      BY <2>1, <2>3 DEF DetectiveTasks, Kind, Same
    <2>7. \A d : KindOf(d) \in {"agentResult", "execution"} => Same(d)
      BY <2>2, <2>3
    <2> QED
      BY <2>1, <2>2, <2>3, <2>4, <2>5, <2>6, <2>7, TasksChange
  <1> QED BY <1>2, <1>3, <1>4

LEMMA OverNone ==
  ASSUME NEW f, NEW g
  PROVE  (f @@ <<>>) @@ g = f @@ g
  BY DEF @@

LEMMA OverOver ==
  ASSUME NEW f, NEW g, NEW h
  PROVE  f @@ (g @@ h) = (f @@ g) @@ h
  BY DEF @@

\* A new result is written with its execution, its task and the operation.
Written(t, x, a, o, p, q, r, u, v) ==
    document' = (AgentResult(t, x, a) :> p @@ Execution(t, x) :> q
                 @@ t :> r
                 @@ IF o[1] # "operation" THEN <<>>
                    ELSE AgentTask(o, a) :> u @@ o :> v) @@ document

LEMMA ResultWrites ==
  ASSUME Shapes, DetectiveInv, NEW t \in DetectiveTasks, NEW x, NEW a,
         NEW p, NEW q, NEW r, NEW u, NEW v, NEW o, o = SourceOperation(t),
         Written(t, x, a, o, p, q, r, u, v)
  PROVE  /\ AgentResult(t, x, a) \in DOMAIN document'
         /\ document'[AgentResult(t, x, a)] = p
         /\ Execution(t, x) \in DOMAIN document'
         /\ document'[Execution(t, x)] = q
         /\ t \in DOMAIN document' /\ document'[t] = r
         /\ o[1] = "operation" => o \in DOMAIN document' /\ document'[o] = v
         /\ \A d : /\ d # AgentResult(t, x, a) /\ d # Execution(t, x) /\ d # t
                   /\ o[1] = "operation" => d # o /\ KindOf(d) # "agentTask"
                   => Same(d)
  <1>1. PICK d, e, f : /\ d = AgentResult(t, x, a) /\ e = Execution(t, x)
                       /\ f = AgentTask(o, a)
    OBVIOUS
  <1>2. /\ KindOf(d) = "agentResult" /\ KindOf(e) = "execution"
        /\ KindOf(t) = "detectiveTask" /\ KindOf(f) = "agentTask"
        /\ o \in Kind("submission") \cup Kind("operation")
    BY <1>1, DetectiveNames, KindIs DEF DetectiveInv, TaskIs, DetectiveTasks
  <1>3. d # e /\ d # t /\ e # t /\ d # f /\ e # f /\ t # f
    BY <1>2
  <1>4. CASE o[1] # "operation"
    <2>1. document' = d :> p @@ e :> q @@ t :> r @@ document
      <3>1. document' = (d :> p @@ e :> q @@ t :> r @@ <<>>) @@ document
        BY <1>1, <1>4 DEF Written
      <3> QED BY <3>1, OverNone
    <2> QED BY <1>1, <1>3, <1>4, <2>1, Write3
  <1>5. CASE o[1] = "operation"
    <2>1. KindOf(o) = "operation" /\ d # o /\ e # o /\ t # o /\ f # o
      <3>1. o \in Kind("operation")
        BY <1>2, <1>5 DEF Kind
      <3> QED BY <1>2, <3>1, KindIs
    <2>2. document' = d :> p @@ e :> q @@ t :> r @@ f :> u @@ o :> v @@ document
      <3>1. document' = (d :> p @@ e :> q @@ t :> r @@ (f :> u @@ o :> v))
                          @@ document
        BY <1>1, <1>5 DEF Written
      <3> QED BY <3>1, OverOver
    <2>3. /\ d \in DOMAIN document' /\ document'[d] = p
          /\ e \in DOMAIN document' /\ document'[e] = q
          /\ t \in DOMAIN document' /\ document'[t] = r
          /\ o \in DOMAIN document' /\ document'[o] = v
          /\ \A y : y # d /\ y # e /\ y # t /\ y # f /\ y # o => Same(y)
      BY <1>3, <2>1, <2>2, Write5
    <2> QED BY <1>1, <1>2, <1>5, <2>3
  <1> QED BY <1>4, <1>5

LEMMA DetectiveResult ==
  ASSUME Shapes, Shapes', DetectiveInv, NEW t \in DetectiveTasks, NEW x, x # NoExecution,
         NEW a \in Agents, NEW status \in {"completed", "failed"},
         PersistDigitalDetectiveResult(t, x, a, status)
  PROVE  DetectiveInv'
  <1>a. PICK d, e, o, p : /\ d = AgentResult(t, x, a) /\ e = Execution(t, x)
                          /\ o = SourceOperation(t) /\ p = [status |-> status]
    OBVIOUS
  <1>b. PICK done, failed :
          /\ done = IF status = "completed"
                    THEN Reported(t, x).completed \cup {a}
                    ELSE Reported(t, x).completed \ {a}
          /\ failed = IF status = "failed" THEN Reported(t, x).failed \cup {a}
                      ELSE Reported(t, x).failed \ {a}
    OBVIOUS
  <1>c. PICK said, processed, u :
          /\ said = calculateExecutionStatus(done, failed)
          /\ processed = Cardinality(done \cup failed) /\ u = Updated(t)
    OBVIOUS
  <1>d. PICK r : r = [u EXCEPT !.status = said, !.processed = processed,
                              !.execution = x]
    OBVIOUS
  <1>1. /\ d = AgentResult(t, x, a) /\ e = Execution(t, x)
        /\ o = SourceOperation(t) /\ p = [status |-> status]
        /\ done = IF status = "completed"
                  THEN Reported(t, x).completed \cup {a}
                  ELSE Reported(t, x).completed \ {a}
        /\ failed = IF status = "failed" THEN Reported(t, x).failed \cup {a}
                    ELSE Reported(t, x).failed \ {a}
        /\ said = calculateExecutionStatus(done, failed)
        /\ processed = Cardinality(done \cup failed) /\ u = Updated(t)
        /\ r = [u EXCEPT !.status = said, !.processed = processed,
                         !.execution = x]
    BY <1>a, <1>b, <1>c, <1>d
  <1>e. PICK q, v :
          /\ q = [completed |-> done, failed |-> failed, status |-> said]
          /\ v = [status |-> said, execution |-> x, processed |-> processed]
    OBVIOUS
  <1>f. Written(t, x, a, o, p, q, r, p, v)
    BY <1>1, <1>e, SMTT(30)
    DEF PersistDigitalDetectiveResult, Transact, Written
  <1>2. PICK w : /\ q = [completed |-> done, failed |-> failed, status |-> said]
                 /\ v = [status |-> said, execution |-> x,
                         processed |-> processed]
                 /\ Written(t, x, a, o, p, q, r, w, v)
    BY <1>e, <1>f
  <1>3. d \notin DOMAIN document /\ UNCHANGED call
    BY <1>1 DEF PersistDigitalDetectiveResult, Exists, Transact
  <1>4. /\ d \in DOMAIN document' /\ document'[d] = p
        /\ e \in DOMAIN document' /\ document'[e] = q
        /\ t \in DOMAIN document' /\ document'[t] = r
        /\ o[1] = "operation" => o \in DOMAIN document' /\ document'[o] = v
        /\ \A y : /\ y # d /\ y # e /\ y # t
                  /\ o[1] = "operation" => y # o /\ KindOf(y) # "agentTask"
                  => Same(y)
    <2>1. o = SourceOperation(t)
      BY <1>1
    <2>2. /\ AgentResult(t, x, a) \in DOMAIN document'
          /\ document'[AgentResult(t, x, a)] = p
          /\ Execution(t, x) \in DOMAIN document'
          /\ document'[Execution(t, x)] = q
          /\ t \in DOMAIN document' /\ document'[t] = r
          /\ o[1] = "operation" => o \in DOMAIN document' /\ document'[o] = v
          /\ \A y : /\ y # AgentResult(t, x, a) /\ y # Execution(t, x) /\ y # t
                    /\ o[1] = "operation" => y # o /\ KindOf(y) # "agentTask"
                    => Same(y)
      BY <1>2, <2>1, ResultWrites
    <2>3. d = AgentResult(t, x, a) /\ e = Execution(t, x)
      BY <1>1
    <2> QED BY <2>2, <2>3, Zenon
  <1>5. /\ KindOf(d) = "agentResult" /\ KindOf(e) = "execution"
        /\ KindOf(t) = "detectiveTask" /\ TaskIs(t)
        /\ o \in Kind("submission") \cup Kind("operation")
        /\ o[1] = "operation" <=> o \in Kind("operation")
        /\ KindOf(o) \in {"submission", "operation"}
    BY <1>1, DetectiveNames, KindIs DEF DetectiveInv, TaskIs, DetectiveTasks, Kind
  <1>6. o[1] = "operation" => KindOf(o) = "operation"
    BY <1>5, KindIs
  <1>7. /\ Kind("agentResult")' = Kind("agentResult") \cup {d}
        /\ Kind("execution")' = Kind("execution") \cup {e}
    <2>1. Kind("agentResult")' = Kind("agentResult") \cup {d}
      BY <1>4, <1>5, <1>6, KindWith
    <2>2. Kind("execution")' = Kind("execution") \cup {e}
      BY <1>4, <1>5, <1>6, KindWith
    <2> QED BY <2>1, <2>2
  <1>8. Kind("submission")' = Kind("submission") /\ DetectiveTasks' = DetectiveTasks
    <2>1. Kind("submission")' = Kind("submission")
      BY <1>4, <1>5, <1>6, KindSame
    <2>2. DetectiveTasks' = DetectiveTasks \cup {t}
      BY <1>4, <1>5, <1>6, KindWith DEF DetectiveTasks
    <2> QED BY <2>1, <2>2
  <1>9. Kind("operation")' = Kind("operation")
    <2>1. CASE o[1] = "operation"
      <3>1. Kind("operation")' = Kind("operation") \cup {o}
        BY <1>4, <1>5, <1>6, <2>1, KindWith
      <3> QED BY <1>5, <2>1, <3>1
    <2>2. CASE o[1] # "operation"
      BY <1>4, <1>5, <2>2, KindSame
    <2> QED BY <2>1, <2>2
  <1>10. /\ \A y \in Kind("agentResult") : y # d /\ document'[y] = document[y]
         /\ \A y \in Kind("execution") : y # e => document'[y] = document[y]
         /\ \A y \in DetectiveTasks : y # t => document'[y] = document[y]
         /\ \A y \in Kind("operation") : y # o => document'[y] = document[y]
    BY <1>3, <1>4, <1>5, KindIs DEF Same, Kind, DetectiveTasks
  <1>11. Reported(t, x).completed = ResultsOf(t, x, "completed")
         /\ Reported(t, x).failed = ResultsOf(t, x, "failed")
    <2>1. CASE Exists(e)
      <3>1. ExecutionIs(e) /\ e[2] = t /\ e[3] = x
        BY <1>1, <1>5, <2>1, InKind, DetectiveIds DEF DetectiveInv, Exists
      <3> QED BY <1>1, <2>1, <3>1 DEF ExecutionIs, Reported
    <2>2. CASE ~Exists(e)
      <3>1. \A b : AgentResult(t, x, b) \notin DOMAIN document
        <4>1. ASSUME NEW b, AgentResult(t, x, b) \in DOMAIN document
              PROVE  FALSE
          <5>1. AgentResult(t, x, b) \in Kind("agentResult")
            BY <4>1 DEF Kind, AgentResult
          <5>2. e \in Kind("execution")
            BY <1>1, <5>1, DetectiveIds DEF DetectiveInv, ResultIs
          <5> QED BY <2>2, <5>2 DEF Kind, Exists
        <4> QED BY <4>1
      <3>2. ResultsOf(t, x, "completed") = {} /\ ResultsOf(t, x, "failed") = {}
        BY <3>1 DEF ResultsOf, Exists
      <3> QED BY <1>1, <2>2, <3>2 DEF Reported
    <2> QED BY <2>1, <2>2
  <1>12. /\ a \notin ResultsOf(t, x, "completed")
         /\ a \notin ResultsOf(t, x, "failed")
    BY <1>1, <1>3 DEF ResultsOf, Exists
  <1>13. \A b \in Agents : b # a => Same(AgentResult(t, x, b))
    BY <1>1, <1>4, <1>5, DetectiveNames, DetectiveIds
  <1>14. /\ done = ResultsOf(t, x, "completed")'
         /\ failed = ResultsOf(t, x, "failed")'
    <2>1. ASSUME NEW s \in {"completed", "failed"}
          PROVE  ResultsOf(t, x, s)' = IF s = status THEN ResultsOf(t, x, s) \cup {a}
                                       ELSE ResultsOf(t, x, s)
      <3>1. \A b \in Agents : b # a =>
              (b \in ResultsOf(t, x, s)' <=> b \in ResultsOf(t, x, s))
        BY <1>13 DEF ResultsOf, Exists, Same
      <3>2. a \in ResultsOf(t, x, s)' <=> s = status
        <4>1. p.status = status
          BY <1>1
        <4> QED BY <1>1, <1>4, <4>1 DEF ResultsOf, Exists
      <3>3. /\ ResultsOf(t, x, s)' \subseteq Agents
            /\ ResultsOf(t, x, s) \subseteq Agents
        BY DEF ResultsOf
      <3> QED BY <1>12, <3>1, <3>2, <3>3
    <2> QED BY <1>1, <1>11, <1>12, <2>1
  <1>15. ASSUME NEW y, NEW z, y # t \/ z # x
         PROVE  /\ \A s : ResultsOf(y, z, s)' = ResultsOf(y, z, s)
                /\ ReportedOf(y, z)' = ReportedOf(y, z)
    <2>1. \A b : Same(AgentResult(y, z, b))
      BY <1>1, <1>4, <1>5, <1>15, DetectiveNames, DetectiveIds
    <2> QED BY <2>1, ResultsSame
  <1>16. ASSUME NEW y \in Kind("agentResult")'
         PROVE  ResultIs(y)'
    <2>1. CASE y = d
      <3>1. d = AgentResult(d[2], d[3], d[4]) /\ d[2] = t /\ d[3] = x
        BY <1>1 DEF AgentResult
      <3> QED BY <1>1, <1>4, <1>7, <1>8, <2>1, <3>1 DEF ResultIs
    <2>2. CASE y # d
      BY <1>7, <1>8, <1>10, <2>2 DEF DetectiveInv, ResultIs
    <2> QED BY <2>1, <2>2
  <1>17. ASSUME NEW y \in Kind("execution")'
         PROVE  ExecutionIs(y)'
    <2>1. CASE y = e
      <3>1. /\ e = Execution(e[2], e[3]) /\ e[2] = t /\ e[3] = x
            /\ q.completed = done /\ q.failed = failed /\ q.status = said
        BY <1>1, <1>2 DEF Execution
      <3>2. said = calculateExecutionStatus(done, failed)'
        BY <1>1 DEF calculateExecutionStatus
      <3> QED BY <1>4, <1>14, <2>1, <3>1, <3>2
          DEF ExecutionIs, calculateExecutionStatus
    <2>2. CASE y # e
      <3>1. ExecutionIs(y) /\ document'[y] = document[y]
        BY <1>7, <1>10, <2>2 DEF DetectiveInv
      <3>2. y[2] # t \/ y[3] # x
        BY <1>1, <2>2, <3>1 DEF ExecutionIs
      <3> QED BY <1>15, <3>1, <3>2 DEF ExecutionIs, calculateExecutionStatus
    <2> QED BY <2>1, <2>2
  <1>18. TaskIs(t)'
    <2>1. /\ DOMAIN r = {"status", "dispatch", "attemptCount", "processed",
                         "execution", "version"}
          /\ r.status = said /\ r.processed = processed /\ r.execution = x
      BY <1>1, <1>5 DEF TaskIs, Updated
    <2>2. processed = Cardinality(ReportedOf(t, x))'
      BY <1>1, <1>14 DEF ReportedOf
    <2>3. said = "completed" => processed = Cardinality(Agents)
      BY <1>1 DEF calculateExecutionStatus
    <2>4. /\ t = DetectiveTask(o)
          /\ o \in Kind("submission")' \cup Kind("operation")'
      BY <1>1, <1>5, <1>8, <1>9 DEF TaskIs
    <2>5. q.status = said /\ v.status = said /\ v.execution = x
          /\ v.processed = processed
      BY <1>2
    <2> QED BY <1>1, <1>4, <1>7, <2>1, <2>2, <2>3, <2>4, <2>5 DEF TaskIs
  <1>19. ASSUME NEW y \in DetectiveTasks, y # t
         PROVE  TaskIs(y)'
    <2>1. PICK s, z : s = SourceOperation(y) /\ z = document[y].execution
      OBVIOUS
    <2>2. /\ TaskIs(y) /\ document'[y] = document[y]
          /\ ReportedOf(y, z)' = ReportedOf(y, z)
      BY <1>10, <1>15, <1>19 DEF DetectiveInv
    <2>3. s # o
      BY <1>1, <1>5, <1>19, <2>1, <2>2 DEF TaskIs
    <2>4. s[1] = "operation" => document'[s] = document[s]
      BY <1>10, <2>1, <2>2, <2>3 DEF TaskIs, Kind
    <2>5. z # NoExecution =>
            /\ Execution(y, z) \in Kind("execution")'
            /\ document'[Execution(y, z)] = document[Execution(y, z)]
      BY <1>1, <1>7, <1>10, <1>19, <2>1, <2>2, DetectiveIds DEF TaskIs
    <2> QED BY <1>8, <1>9, <2>1, <2>2, <2>4, <2>5 DEF TaskIs
  <1>20. ASSUME NEW y \in Kind("operation")
         PROVE  OperationIs(y)'
    <2>1. CASE y = o
      BY <1>1, <1>5, <1>8, <2>1 DEF OperationIs, TaskIs
    <2>2. CASE y # o
      BY <1>8, <1>10, <2>2 DEF OperationIs, DetectiveInv
    <2> QED BY <2>1, <2>2
  <1>21. \A c \in Calls : DispatchIs(c)'
    BY <1>3, <1>8 DEF DispatchIs, DetectiveInv
  <1> QED
    BY <1>8, <1>9, <1>16, <1>17, <1>18, <1>19, <1>20, <1>21 DEF DetectiveInv

LEMMA DetectiveFramed ==
  ASSUME Shapes, Shapes', DetectiveInv, Frame(DetectiveKinds, DetectivePcs)
  PROVE  DetectiveInv' /\ DetectiveTasks' = DetectiveTasks
  <1>1. \A k \in {"submission", "operation", "detectiveTask", "agentResult",
                  "execution"} :
          /\ Kind(k)' = Kind(k)
          /\ \A d \in Kind(k) : document'[d] = document[d]
    BY DetectiveNames, KindIs DEF Frame, Same, Kind
  <1>2. \A d : KindOf(d) \in {"agentResult", "execution"} => Same(d)
    BY DetectiveNames DEF Frame
  <1>3. /\ DetectiveTasks' = DetectiveTasks
        /\ \A t \in DetectiveTasks : document'[t] = document[t]
    BY <1>1 DEF DetectiveTasks
  <1>4. \A c \in Calls : call'[c].pc \in DetectivePcs => call'[c] = call[c]
    BY DEF Frame
  <1> QED BY <1>1, <1>2, <1>3, <1>4, TasksChange

LEMMA DetectiveStep ==
  ASSUME Shapes, Shapes', DetectiveInv, [PlatformNext]_documentVars
  PROVE  DetectiveInv'
  <1>1. \/ \E c \in Calls : DetectiveNext(c)
        \/ Frame(DetectiveKinds, DetectivePcs)
    <2> DEFINE Apart(kinds, pcs) ==
                 kinds \cap DetectiveKinds = {} /\ pcs \cap DetectivePcs = {}
    <2>1. /\ Apart(WorkspaceKinds, WorkspacePcs) /\ Apart(RiskKinds, RiskPcs)
          /\ Apart(CasesKinds, CasesPcs) /\ Apart(UploadsKinds, UploadsPcs)
          /\ Apart(SponsorKinds, SponsorPcs) /\ Apart({}, {})
          /\ \A kinds \in {LaboratoriesKinds, TraceabilityKinds, TwinsKinds,
                           PriorityKinds, SupplyKinds, BrandKinds} :
               Apart(kinds, {})
      BY DEF WorkspaceKinds, RiskKinds, CasesKinds, UploadsKinds, SponsorKinds,
         LaboratoriesKinds, TraceabilityKinds, TwinsKinds, PriorityKinds,
         SupplyKinds, BrandKinds, DetectiveKinds, WorkspacePcs, RiskPcs,
         CasesPcs, UploadsPcs, SponsorPcs, DetectivePcs
    <2> HIDE DEF Apart
    <2>2. \/ \E c \in Calls : DetectiveNext(c)
          \/ \E kinds, pcs : Touches(kinds, pcs) /\ Apart(kinds, pcs)
      BY <2>1, Stepped
    <2>3. "idle" \notin DetectivePcs
      BY DetectiveIds
    <2> QED BY <2>2, <2>3, Framed DEF Apart
  <1>2. ASSUME NEW c \in Calls, DetectiveNext(c)
        PROVE  DetectiveInv'
    <2>1. \A t, n : \A x \in 1 .. n : x # NoExecution
      BY DetectiveIds
    <2>2. \/ \E s : CreateDigitalDetectiveTask(s)
          \/ \E o : CreateAiFieldOperation(o)
          \/ \E o : AiFieldOperationBridge(o)
          \/ \E t \in DetectiveTasks : ClaimDispatch(c, t)
          \/ WebhookAnswered(c)
          \/ NoToken(c)
          \/ WebhookFailed(c)
          \/ CatchFailure(c)
          \/ RecordFailure(c)
          \/ \E t \in DetectiveTasks, a \in Agents,
                status \in {"completed", "failed"} :
               \E x : x # NoExecution
                      /\ PersistDigitalDetectiveResult(t, x, a, status)
      BY <1>2, <2>1, Zenon DEF DetectiveNext
    <2> QED
      BY <2>2, DetectiveCreates, DetectiveDispatch, DetectiveResult, Zenon
  <1> QED BY <1>1, <1>2, DetectiveFramed

LEMMA DetectiveInit == DocumentsInit => Shapes /\ DetectiveInv
  <1> SUFFICES ASSUME DocumentsInit
               PROVE  Shapes /\ DetectiveInv
    OBVIOUS
  <1>1. /\ \A k : Kind(k) = {}
        /\ \A c \in Calls : call[c].pc = "idle"
    BY DEF DocumentsInit, Kind, Idle
  <1>2. DetectiveInv
    BY <1>1, DetectiveIds DEF DetectiveInv, DispatchIs, DetectiveTasks
  <1> QED BY <1>1, <1>2, IdleShape DEF DocumentsInit, Shapes

\* Every result counts once, for its own execution, whatever the order in
\* which the results of the executions of a task and the answers of its
\* dispatches come.
THEOREM ResultsAreCounted == PlatformSpec => []ResultsCounted
  <1> DEFINE Inv == Shapes /\ DetectiveInv
  <1>1. DocumentsInit => Inv
    BY DetectiveInit
  <1>2. Inv /\ [PlatformNext]_documentVars => Inv'
    BY ShapesStep, DetectiveStep
  <1>3. Inv => ResultsCounted
    BY DetectiveMeans
  <1> QED BY <1>1, <1>2, <1>3, PTL DEF PlatformSpec

-----------------------------------------------------------------------------
(* Shared risk signals.                                                    *)

\* What is promoted is what the call has read, and a task is still there.
PromoteIs(c) ==
    call[c].pc = "promote" /\ call[c].source[1] = "detectiveTask" =>
      call[c].source \in DetectiveTasks

PromoteInv == \A c \in Calls : PromoteIs(c)

\* A transaction that deletes nothing.
Grows == DOMAIN document \subseteq DOMAIN document'

LEMMA OverGrows ==
  ASSUME NEW w, document' = w @@ document
  PROVE  Grows
  BY DEF Grows, @@

LEMMA DetectiveGrows ==
  ASSUME NEW c \in Calls, DetectiveNext(c)
  PROVE  Grows
  <1>1. ASSUME NEW t, ClaimDispatch(c, t)
        PROVE  Grows
    <2>1. PICK w : document' = w @@ document
      BY <1>1, Zenon DEF ClaimDispatch, Claim
    <2> QED BY <2>1, OverGrows
  <1>2. ASSUME \/ WebhookAnswered(c) \/ NoToken(c) \/ RecordFailure(c)
               \/ WebhookFailed(c) \/ CatchFailure(c)
        PROVE  Grows
    <2>1. PICK w, next : Step(c, w, next)
      BY <1>2 DEF WebhookAnswered, NoToken, RecordFailure, WebhookFailed,
         CatchFailure, Commit
    <2> QED BY <2>1, OverGrows DEF Step
  <1>3. ASSUME NEW s, \/ CreateDigitalDetectiveTask(s)
                      \/ CreateAiFieldOperation(s)
                      \/ AiFieldOperationBridge(s)
        PROVE  Grows
    <2>1. PICK w : Transact(w)
      BY <1>3, Zenon DEF CreateDigitalDetectiveTask, CreateAiFieldOperation,
         AiFieldOperationBridge
    <2> QED BY <2>1, OverGrows DEF Transact
  <1>4. ASSUME NEW t, NEW x, NEW a, NEW status,
               PersistDigitalDetectiveResult(t, x, a, status)
        PROVE  Grows
    <2>1. PICK w : Transact(w)
      BY <1>4, Zenon DEF PersistDigitalDetectiveResult
    <2> QED BY <2>1, OverGrows DEF Transact
  <1> QED BY <1>1, <1>2, <1>3, <1>4, Zenon DEF DetectiveNext

\* Of a task, its signal tells what all agents have reported.
SignalTells ==
    /\ \A s \in Signals(document') \ Signals(document) :
         LET source == document'[s].source IN
         /\ document[source].version = document'[s].version
         /\ Promotable(source)
         /\ source[1] = "detectiveTask" => AllReported(source)
         /\ {Receipt(s[2]), RiskAudit(s[2])} \subseteq DOMAIN document'
    /\ \A s \in Signals(document) : document'[s] = document[s]

LEMMA SignalsLeft ==
  ASSUME Shapes, Shapes', \A d : KindOf(d) = "riskSignal" => Same(d)
  PROVE  SignalTells
  <1>1. /\ Kind("riskSignal")' = Kind("riskSignal")
        /\ \A d \in Kind("riskSignal") : document'[d] = document[d]
    BY KindKept
  <1>2. /\ Signals(document') = Kind("riskSignal")'
        /\ Signals(document) = Kind("riskSignal")
    BY DEF Signals, Kind
  <1> QED BY <1>1, <1>2 DEF SignalTells

LEMMA SignalCreated ==
  ASSUME Shapes, Shapes', DetectiveInv, PromoteInv, NEW c \in Calls,
         ExecutePersistenceTransaction(c)
  PROVE  SignalTells /\ Moved(c, Idle) /\ Leaves(RiskKinds)
  <1>1. PICK source, version, key, a, b, e, x, y :
          /\ source = call[c].source /\ version = call[c].version
          /\ key = call[c].key
          /\ a = Signal(key) /\ b = Receipt(key) /\ e = RiskAudit(key)
          /\ x = [source |-> source, version |-> version]
          /\ y = [signal |-> a]
    OBVIOUS
  <1>2. Commit(c, a :> x @@ b :> y @@ e :> y)
    BY <1>1, Zenon DEF ExecutePersistenceTransaction
  <1>3. /\ call[c].pc = "promote" /\ Promotable(source)
        /\ document[source].version = version
        /\ a \notin DOMAIN document
    BY <1>1 DEF ExecutePersistenceTransaction, SourceRevalidated, Exists
  <1>4. /\ document' = a :> x @@ b :> y @@ e :> y @@ document
        /\ Moved(c, Idle)
    BY <1>2, CommitIs DEF Shapes
  <1>5. /\ KindOf(a) = "riskSignal" /\ KindOf(b) = "riskReceipt"
        /\ KindOf(e) = "riskAudit" /\ a # b /\ a # e /\ b # e
        /\ a[2] = key
    BY <1>1, RiskNames DEF Signal
  <1>6. /\ a \in DOMAIN document' /\ document'[a] = x
        /\ b \in DOMAIN document' /\ e \in DOMAIN document'
        /\ \A d : d # a /\ d # b /\ d # e => Same(d)
    BY <1>4, <1>5, Write3
  <1>7. Leaves(RiskKinds)
    BY <1>5, <1>6, RiskNames DEF Leaves
  <1>8. source[1] = "detectiveTask" => AllReported(source)
    <2> HAVE source[1] = "detectiveTask"
    <2>1. source \in DetectiveTasks
      BY <1>1, <1>3 DEF PromoteInv, PromoteIs
    <2>2. document[source].status = "completed"
      BY <1>3 DEF Promotable
    <2> QED BY <2>1, <2>2 DEF DetectiveInv, TaskIs, AllReported
  <1>9. Kind("riskSignal")' = Kind("riskSignal") \cup {a}
    BY <1>5, <1>6, KindWith
  <1>10. \A d \in Kind("riskSignal") : document'[d] = document[d]
    BY <1>3, <1>5, <1>6, KindIs DEF Kind, Same
  <1>11. /\ Signals(document') = Kind("riskSignal")'
         /\ Signals(document) = Kind("riskSignal")
    BY DEF Signals, Kind
  <1>12. /\ x.source = source /\ x.version = version
         /\ {Receipt(a[2]), RiskAudit(a[2])} \subseteq DOMAIN document'
    BY <1>1, <1>5, <1>6
  <1>13. ASSUME NEW s \in Signals(document') \ Signals(document)
         PROVE  LET told == document'[s].source IN
                /\ document[told].version = document'[s].version
                /\ Promotable(told)
                /\ told[1] = "detectiveTask" => AllReported(told)
                /\ {Receipt(s[2]), RiskAudit(s[2])} \subseteq DOMAIN document'
    <2>1. s = a
      BY <1>9, <1>11
    <2>2. document'[s].source = source /\ document'[s].version = version
      BY <1>6, <1>12, <2>1
    <2> QED BY <1>3, <1>8, <1>12, <2>1, <2>2
  <1> QED BY <1>4, <1>7, <1>10, <1>11, <1>13 DEF SignalTells

LEMMA PromoteRead ==
  ASSUME Shapes, Shapes', PromoteInv, NEW c \in Calls,
         NEW source \in DOMAIN document,
         PromoteSharedRisk(c, source) \/ PersistMonitoringRisk(c, source)
  PROVE  PromoteInv' /\ SignalTells
  <1>1. PICK next : Read(c, next) /\ next.pc = "promote" /\ next.source = source
    BY DEF PromoteSharedRisk, PersistMonitoringRisk
  <1>2. (\A d : Same(d)) /\ Moved(c, next)
    BY <1>1, ReadIs DEF Shapes
  <1>3. SignalTells
    BY <1>2, SignalsLeft
  <1>4. DetectiveTasks' = DetectiveTasks
    BY <1>2, KindSame DEF DetectiveTasks
  <1>5. source[1] = "detectiveTask" => source \in DetectiveTasks
    BY DEF DetectiveTasks, Kind
  <1>6. \A d \in Calls : PromoteIs(d)'
    BY <1>1, <1>2, <1>4, <1>5 DEF PromoteInv, PromoteIs, Moved
  <1> QED BY <1>3, <1>6 DEF PromoteInv

LEMMA PromoteStep ==
  ASSUME Shapes, Shapes', DetectiveInv, PromoteInv, [PlatformNext]_documentVars
  PROVE  PromoteInv' /\ SignalTells
  <1>1. \/ \E c \in Calls : RiskNext(c)
        \/ \E c \in Calls : DetectiveNext(c) /\ Touches(DetectiveKinds, DetectivePcs)
        \/ Frame({"riskSignal", "detectiveTask"}, {"promote"})
    <2> DEFINE Apart(kinds, pcs) ==
                 /\ kinds \cap {"riskSignal", "detectiveTask"} = {}
                 /\ pcs \cap {"promote"} = {}
    <2>1. /\ Apart(WorkspaceKinds, WorkspacePcs) /\ Apart({}, {})
          /\ Apart(CasesKinds, CasesPcs) /\ Apart(UploadsKinds, UploadsPcs)
          /\ Apart(SponsorKinds, SponsorPcs)
          /\ \A kinds \in {LaboratoriesKinds, TraceabilityKinds, TwinsKinds,
                           PriorityKinds, SupplyKinds, BrandKinds} :
               Apart(kinds, {})
      BY DEF WorkspaceKinds, CasesKinds, UploadsKinds, SponsorKinds,
         LaboratoriesKinds, TraceabilityKinds, TwinsKinds, PriorityKinds,
         SupplyKinds, BrandKinds, WorkspacePcs, CasesPcs, UploadsPcs, SponsorPcs
    <2> HIDE DEF Apart
    <2>2. \/ \E c \in Calls : RiskNext(c)
          \/ \E c \in Calls : DetectiveNext(c) /\ Touches(DetectiveKinds, DetectivePcs)
          \/ \E kinds, pcs : Touches(kinds, pcs) /\ Apart(kinds, pcs)
      BY <2>1, Stepped
    <2> QED BY <2>2, Framed DEF Apart
  <1>2. CASE Frame({"riskSignal", "detectiveTask"}, {"promote"})
    <2>1. DetectiveTasks' = DetectiveTasks
      BY <1>2 DEF Frame, DetectiveTasks
    <2>2. \A c \in Calls : call'[c].pc = "promote" => call'[c] = call[c]
      BY <1>2 DEF Frame
    <2>3. PromoteInv'
      BY <2>1, <2>2 DEF PromoteInv, PromoteIs
    <2>4. SignalTells
      BY <1>2, SignalsLeft DEF Frame
    <2> QED BY <2>3, <2>4
  <1>3. ASSUME NEW c \in Calls, DetectiveNext(c),
               Touches(DetectiveKinds, DetectivePcs)
        PROVE  PromoteInv' /\ SignalTells
    <2>1. Frame({"riskSignal"}, {"promote"})
      BY <1>3, Framed, DetectiveNames DEF DetectivePcs
    <2>2. \A d \in Calls : call'[d].pc = "promote" => call'[d] = call[d]
      BY <2>1 DEF Frame
    <2>3. DetectiveTasks \subseteq DetectiveTasks'
      BY <1>3, DetectiveGrows DEF Grows, DetectiveTasks, Kind
    <2>4. PromoteInv'
      BY <2>2, <2>3 DEF PromoteInv, PromoteIs
    <2>5. SignalTells
      BY <2>1, SignalsLeft DEF Frame
    <2> QED BY <2>4, <2>5
  <1>4. ASSUME NEW c \in Calls, RiskNext(c)
        PROVE  PromoteInv' /\ SignalTells
    <2>1. \/ \E s \in Sources, scoped \in BOOLEAN : WriteSource(s, scoped)
          \/ \E source \in DOMAIN document :
               PromoteSharedRisk(c, source) \/ PersistMonitoringRisk(c, source)
          \/ ExecutePersistenceTransaction(c)
      BY <1>4, Zenon DEF RiskNext
    <2>2. ASSUME NEW s, NEW scoped, WriteSource(s, scoped)
          PROVE  PromoteInv' /\ SignalTells
      <3>1. PICK a, x : a = SourceRecord(s) /\ Transact(a :> x)
        BY <2>2, Zenon DEF WriteSource
      <3>2. KindOf(a) = "sourceRecord" /\ (\A d : d # a => Same(d)) /\ UNCHANGED call
        BY <3>1, Write1, RiskNames DEF Transact
      <3>3. SignalTells /\ DetectiveTasks' = DetectiveTasks
        BY <3>2, SignalsLeft, KindSame DEF DetectiveTasks
      <3>4. PromoteInv'
        BY <3>2, <3>3 DEF PromoteInv, PromoteIs
      <3> QED BY <3>3, <3>4
    <2>3. ASSUME ExecutePersistenceTransaction(c)
          PROVE  PromoteInv' /\ SignalTells
      <3>1. SignalTells /\ Moved(c, Idle) /\ Leaves(RiskKinds)
        BY <2>3, SignalCreated
      <3>2. DetectiveTasks' = DetectiveTasks
        BY <3>1, KindSame, RiskNames DEF DetectiveTasks, Leaves
      <3>3. PromoteInv'
        BY <3>1, <3>2 DEF PromoteInv, PromoteIs, Moved, Idle
      <3> QED BY <3>1, <3>3
    <2> QED BY <2>1, <2>2, <2>3, PromoteRead, Zenon
  <1> QED BY <1>1, <1>2, <1>3, <1>4

\* A signal tells of its source as it is when the signal is created, whatever
\* the detective and the other callables make of the source between the read
\* and the transaction, and it stays as it is.
THEOREM SignalsTell == PlatformSpec => SignalsTellTheirSource
  <1> DEFINE Inv == Shapes /\ DetectiveInv /\ PromoteInv
             A == /\ \A s \in Signals(document') \ Signals(document) :
                       LET source == document'[s].source IN
                       /\ document[source].version = document'[s].version
                       /\ Promotable(source)
                       /\ source[1] = "detectiveTask" => AllReported(source)
                       /\ {Receipt(s[2]), RiskAudit(s[2])} \subseteq DOMAIN document'
                  /\ \A s \in Signals(document) : document'[s] = document[s]
  <1>1. DocumentsInit => Inv
    BY DetectiveInit DEF DocumentsInit, PromoteInv, PromoteIs, Idle
  <1>2. Inv /\ [PlatformNext]_documentVars => Inv' /\ [A]_documentVars
    <2> SUFFICES ASSUME Inv, [PlatformNext]_documentVars
                 PROVE  Inv' /\ A
      OBVIOUS
    <2>1. Inv' /\ SignalTells
      BY ShapesStep, DetectiveStep, PromoteStep
    <2> QED BY <2>1 DEF SignalTells
  <1> QED BY <1>1, <1>2, PTL DEF PlatformSpec, SignalsTellTheirSource
=============================================================================
