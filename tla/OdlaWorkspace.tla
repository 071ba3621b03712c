--------------------------- MODULE OdlaWorkspace ---------------------------
(***************************************************************************)
(* The workspace of one ODLA verification case: the custody of its         *)
(* samples, test requests and results, findings and appeals.               *)
(*                                                                         *)
(* The service checks what it has read outside of any transaction; the     *)
(* adapter then creates the record and its audit event together.  A record *)
(* is immutable but for an appeal.  Operation ids are chosen by clients    *)
(* and matter only within an action.  Profiles, laboratories and the       *)
(* evidence summary of a case are written by others.                       *)
(***************************************************************************)
EXTENDS DocumentStore

CONSTANTS
    Samples,       \* samples of the case
    Laboratories,  \* laboratories that are eligible for the tests
    Seals          \* seal ids

NoId == 0

\* Ids are non-empty strings: no laboratory is called "no id".
ASSUME NoIdAssumption == NoId \notin Laboratories

Case == <<"case">>
Sample(s) == <<"sample", s>>
CustodyEvent(s, n, type) == <<"event", s, n, type>>
TestRequest(i) == <<"request", i>>
TestResult(i) == <<"result", i>>
Finding(i) == <<"finding", i>>
Appeal(i) == <<"appeal", i>>
Audit(action, op) == <<"audit", action, op>>

\* One type that opens what was sealed, and one that does not.
EventTypes == {"lab_opened", "transferred"}

Audits(action) == {d \in Kind("audit") : d[2] = action}

\* Clients repeat an operation id that was recorded or is under way, or take
\* a new one.
Operations(action) ==
    1 .. 1 + Cardinality(Audits(action))
           + Cardinality({c \in Calls : call[c].pc = action})

\* The record and its audit event are created together or not at all: a
\* record that exists is a replay or a conflict.
Unrecorded(d, action, op) == ~Exists(d) /\ ~Exists(Audit(action, op))

Record(d, action, op, x) ==
    d :> ([op |-> op] @@ x) @@ Audit(action, op) :> [of |-> d]

CreateOdlaVerificationCase(op) ==
    /\ Unrecorded(Case, "create_case", op)
    /\ Transact(Record(Case, "create_case", op, [head |-> <<>>]))

-----------------------------------------------------------------------------
\* Custody.

Head(s) == IF Exists(Sample(s)) THEN document[Sample(s)].last ELSE <<>>
Sequence(s) == IF Exists(Sample(s)) THEN document[Sample(s)].sequence ELSE 0

\* An opened package still bears the seal that its predecessor names.
SealKept(previous, type, seal) ==
    previous # <<>> /\ type = "lab_opened"
        => document[previous].seal \in {NoId, seal}

\* The client names the sequence number, the service the predecessor.
AppendOdlaChainOfCustodyEvent(c, op, s, type, seal) ==
    LET e == CustodyEvent(s, Sequence(s) + 1, type) IN
    /\ Exists(Case)
    /\ Cardinality(Kind("event")) < Bound("event")
    /\ SealKept(Head(s), type, seal)
    /\ Read(c, [pc |-> "append_custody", op |-> op, event |-> e,
                previous |-> Head(s), seal |-> seal])

\* Mutant of NextOfSample: the predecessor suffices.
NextOfSampleByPredecessor(e, previous) ==
    previous # <<>> => Exists(previous)

\* The event continues the head of its sample, whatever the service read.
NextOfSample(e, previous) ==
    /\ e[3] = Sequence(e[2]) + 1
    /\ previous = Head(e[2])

AppendCustodyEvent(c) ==
    LET x == call[c]
        s == x.event[2]
        first == document[Case].head = <<>> IN
    /\ x.pc = "append_custody"
    /\ Unrecorded(x.event, "append_custody", x.op)
    /\ NextOfSample(x.event, x.previous)
    /\ Commit(c,
         Record(x.event, "append_custody", x.op,
           [previous |-> x.previous, seal |-> x.seal])
         @@ Sample(s) :> [sequence |-> x.event[3], last |-> x.event]
         @@ Case :> [document[Case] EXCEPT
              !.head = IF first \/ x.previous = @ THEN x.event ELSE @])

-----------------------------------------------------------------------------
\* Tests.

Open(a) == document[a].state \notin {"resolved", "closed", "dismissed"}
Appeals == Kind("appeal")

\* Of an appeal only one that is open, and only a laboratory other than the
\* one it challenges.
CreateOdlaTestRequest(c, op, i, lab, a) ==
    /\ Exists(Case)
    /\ a # NoId =>
         /\ Exists(Appeal(a))
         /\ document[Appeal(a)].state = "opened"
         /\ document[Appeal(a)].primary \notin {NoId, lab}
    /\ Read(c, [pc |-> "create_test_request", op |-> op,
                request |-> TestRequest(i), lab |-> lab, appeal |-> a])

\* The appeal is not looked at again: the request becomes its test request
\* also when it has another, or is resolved.
CreateTestRequest(c) ==
    LET x == call[c]
        r == Record(x.request, "create_test_request", x.op,
               [lab |-> x.lab, appeal |-> x.appeal]) IN
    /\ x.pc = "create_test_request"
    /\ Unrecorded(x.request, "create_test_request", x.op)
    /\ Commit(c,
         IF x.appeal = NoId THEN r
         ELSE r @@ Appeal(x.appeal) :>
                [document[Appeal(x.appeal)] EXCEPT !.request = x.request[2]])

RecordOdlaTestResult(op, i, r) ==
    /\ Exists(TestRequest(r))
    /\ Unrecorded(TestResult(i), "record_test_result", op)
    /\ Transact(Record(TestResult(i), "record_test_result", op,
         [request |-> r]))

-----------------------------------------------------------------------------
\* Findings and appeals.

\* getAdjudicationContext, evaluateFinality: final stands for a final finding
\* code and an evidence summary that is complete and sufficient.
FinalityAllowed(final, exclude) ==
    final /\ ~ \E a \in Appeals : a # Appeal(exclude) /\ Open(a)

AdjudicateOdlaFinding(c, op, i, final, r) ==
    /\ Exists(Case)
    /\ r # NoId => Exists(TestRequest(r))
    /\ Read(c, [pc |-> "adjudicate_finding", op |-> op,
                finding |-> Finding(i), final |-> FinalityAllowed(final, NoId),
                primary |-> IF r = NoId THEN NoId
                            ELSE document[TestRequest(r)].lab])

WriteFinding(c) ==
    LET x == call[c] IN
    /\ x.pc = "adjudicate_finding"
    /\ Unrecorded(x.finding, "adjudicate_finding", x.op)
    /\ Commit(c, Record(x.finding, "adjudicate_finding", x.op,
         [final |-> x.final, primary |-> x.primary]))

OpenOdlaAppeal(op, i, f) ==
    /\ Exists(Finding(f))
    /\ Unrecorded(Appeal(i), "open_appeal", op)
    /\ Transact(Record(Appeal(i), "open_appeal", op,
         [finding |-> f, primary |-> document[Finding(f)].primary,
          state |-> "opened", request |-> NoId, lab |-> NoId,
          final |-> FALSE, resolution |-> NoId]))

\* Conflicting results leave the appeal to a review, without a finding.
ResolveOdlaAppeal(c, op, i, conflict, final) ==
    LET a == document[Appeal(i)]
        lab == document[TestRequest(a.request)].lab IN
    /\ Exists(Appeal(i))
    /\ NoId \notin {a.primary, a.request}
    /\ document[TestRequest(a.request)].appeal = i
    /\ a.primary # lab
    /\ Read(c, [pc |-> "resolve_appeal", op |-> op, appeal |-> Appeal(i),
                lab |-> lab,
                state |-> IF conflict THEN "conflict_review" ELSE "resolved",
                final |-> ~conflict /\ FinalityAllowed(final, i)])

\* Mutant of Unresolved: the operation id is not compared.
UnresolvedOperation(a, op) == ~Exists(Audit("resolve_appeal", op))

Unresolved(a, op) ==
    document[a].resolution = NoId /\ ~Exists(Audit("resolve_appeal", op))

ResolveAppeal(c) ==
    LET x == call[c] IN
    /\ x.pc = "resolve_appeal"
    /\ Unresolved(x.appeal, x.op)
    /\ Commit(c,
         x.appeal :> [document[x.appeal] EXCEPT
           !.state = x.state, !.lab = x.lab, !.final = x.final,
           !.resolution = x.op]
         @@ Audit("resolve_appeal", x.op) :> [of |-> x.appeal])

WorkspaceReads(c) ==
    \/ \E op \in Operations("append_custody"), s \in Samples,
          type \in EventTypes, seal \in Seals \cup {NoId} :
         AppendOdlaChainOfCustodyEvent(c, op, s, type, seal)
    \/ \E op \in Operations("create_test_request"), i \in Chosen("request"),
          lab \in Laboratories, a \in 0 .. Cardinality(Appeals) :
         CreateOdlaTestRequest(c, op, i, lab, a)
    \/ \E op \in Operations("adjudicate_finding"), i \in Chosen("finding"),
          final \in BOOLEAN, r \in 0 .. Cardinality(Kind("request")) :
         AdjudicateOdlaFinding(c, op, i, final, r)
    \/ \E op \in Operations("resolve_appeal"),
          i \in 1 .. Cardinality(Appeals), conflict, final \in BOOLEAN :
         ResolveOdlaAppeal(c, op, i, conflict, final)

WorkspaceNext(c) ==
    \/ Bound("case") > 0 /\ \E op \in Operations("create_case") :
         CreateOdlaVerificationCase(op)
    \/ WorkspaceReads(c)
    \/ AppendCustodyEvent(c)
    \/ CreateTestRequest(c)
    \/ \E op \in Operations("record_test_result"), i \in Chosen("result"),
          r \in 1 .. Cardinality(Kind("request")) :
         RecordOdlaTestResult(op, i, r)
    \/ WriteFinding(c)
    \/ \E op \in Operations("open_appeal"), i \in Chosen("appeal"),
          f \in 1 .. Cardinality(Kind("finding")) :
         OpenOdlaAppeal(op, i, f)
    \/ ResolveAppeal(c)

-----------------------------------------------------------------------------
EventsOfSample(s) == {d \in Kind("event") : d[2] = s}

\* The custody of each sample is one chain although calls append to what they
\* read before: its events are numbered without a gap or a second event of a
\* number, each continues the one before and opens no other seal, and the head
\* is the last one.  The case names the head of one of its samples.
CustodyChained ==
    /\ \A s \in Samples :
         LET Events == EventsOfSample(s) IN
         /\ Cardinality(Events) = Sequence(s)
         /\ {e[3] : e \in Events} = 1 .. Sequence(s)
         /\ Events # {} => Head(s) \in Events /\ Head(s)[3] = Sequence(s)
         /\ \A e \in Events :
              LET p == document[e].previous IN
              IF e[3] = 1 THEN p = <<>>
              ELSE /\ p \in Events /\ p[3] = e[3] - 1
                   /\ e[4] = "lab_opened" =>
                        document[p].seal \in {NoId, document[e].seal}
    /\ Exists(Case) => document[Case].head
         \in {Head(s) : s \in {s \in Samples : EventsOfSample(s) # {}}}
               \cup (IF Kind("event") = {} THEN {<<>>} ELSE {})

RecordKinds == {"case", "event", "request", "result", "finding", "appeal"}
Resolved == {a \in Appeals : document[a].resolution # NoId}

\* Every record and every resolution has an audit event of its own, and every
\* audit event tells of one: nothing is written unaudited, and no operation id
\* stands for two records of a kind.
AuditWhole ==
    LET Of == {d \in DOMAIN document : d[1] \in RecordKinds} IN
    /\ {document[e].of : e \in Kind("audit")} = Of
    /\ Cardinality(Kind("audit")) = Cardinality(Of) + Cardinality(Resolved)
    /\ \A a \in Resolved :
         /\ Exists(Audit("resolve_appeal", document[a].resolution))
         /\ document[Audit("resolve_appeal", document[a].resolution)].of = a

\* The outcome of an appeal is decided once and by a second laboratory: of two
\* calls that resolve it the later one changes nothing.
ResolutionStands ==
    [][\A a \in {d \in DOMAIN document' : d[1] = "appeal"} :
         /\ document'[a].resolution # NoId =>
              document'[a].lab \notin {NoId, document'[a].primary}
         /\ a \in Resolved =>
              document'[a] = [document[a] EXCEPT
                !.request = document'[a].request]]_documentVars

\* "ADV-014 open appeal blocks finality" (adjudication.test.js:30): no finding
\* becomes final while a material appeal is open.  Not kept by the code:
\* README.md, under "Disagreements".
OpenAppealBlocksFinality ==
    [][\A f \in {d \in DOMAIN document' : d[1] = "finding"} \ DOMAIN document :
         document'[f].final => ~ \E a \in Appeals : Open(a)]_documentVars
=============================================================================
