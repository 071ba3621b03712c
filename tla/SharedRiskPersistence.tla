------------------------ MODULE SharedRiskPersistence ------------------------
(***************************************************************************)
(* Shared risk signals: a human promotes a record of a source system, or   *)
(* an administrator persists a monitoring signal.  Either reads the source *)
(* first and creates, in one transaction that looks at the source again,   *)
(* the signal, its receipt and its audit event.                            *)
(*                                                                         *)
(* The sources are the completed tasks of the digital detective, the scans *)
(* of a product code, and monitoring signals, which other systems write.   *)
(***************************************************************************)
EXTENDS DigitalDetective, Traceability

CONSTANT Sources  \* monitoring signals

\* scoped: the record is of the caller's tenant and brand.
SourceRecord(s) == <<"sourceRecord", s>>
SourceKinds == {"detectiveTask", "scan", "sourceRecord"}

\* A signal's id is made of its idempotency key: a promotion's names the
\* version of the source, that of a monitoring signal does not.
Promotion(source, version) == <<"promotion", source, version>>
Occurrence(source) == <<"occurrence", source>>
Signal(key) == <<"riskSignal", key>>
Receipt(key) == <<"riskReceipt", key>>
RiskAudit(key) == <<"riskAudit", key>>

\* What other systems write (external).
WriteSource(s, scoped) ==
    Transact(SourceRecord(s) :>
      [scoped |-> scoped,
       version |-> IF Exists(SourceRecord(s))
                   THEN document[SourceRecord(s)].version + 1 ELSE 1])

Promotable(source) ==
    CASE source[1] = "detectiveTask" -> document[source].status = "completed"
      [] source[1] = "scan" -> document[source].found
      [] OTHER -> document[source].scoped

\* The version that the client expects is the one that is read.
PromoteSharedRisk(c, source) ==
    /\ Promotable(source)
    /\ Read(c, [pc |-> "promote", source |-> source,
                version |-> document[source].version,
                key |-> Promotion(source, document[source].version)])

PersistMonitoringRisk(c, source) ==
    /\ source[1] = "sourceRecord" /\ document[source].scoped
    /\ Read(c, [pc |-> "promote", source |-> source,
                version |-> document[source].version,
                key |-> Occurrence(source)])

\* Mutant of SourceRevalidated: what may be promoted may have changed.
SourceRevalidatedState(x) == Promotable(x.source)

\* Of a source that is as it was read.
SourceRevalidated(x) ==
    /\ Promotable(x.source)
    /\ document[x.source].version = x.version

\* A receipt, a signal or an audit event that exists is an idempotent success
\* or a conflict, and nothing is written.
ExecutePersistenceTransaction(c) ==
    LET x == call[c] IN
    /\ x.pc = "promote"
    /\ SourceRevalidated(x)
    /\ \A d \in {Receipt(x.key), Signal(x.key), RiskAudit(x.key)} : ~Exists(d)
    /\ Commit(c, Signal(x.key) :> [source |-> x.source,
                                   version |-> x.version]
                 @@ Receipt(x.key) :> [signal |-> Signal(x.key)]
                 @@ RiskAudit(x.key) :> [signal |-> Signal(x.key)])

RiskNext(c) ==
    \/ \E s \in Sources, scoped \in BOOLEAN :
         /\ Bound("source") > IF Exists(SourceRecord(s))
                               THEN document[SourceRecord(s)].version ELSE 0
         /\ WriteSource(s, scoped)
    \/ \E source \in {d \in DOMAIN document : d[1] \in SourceKinds} :
         Room("riskSignal") /\
           (PromoteSharedRisk(c, source) \/ PersistMonitoringRisk(c, source))
    \/ ExecutePersistenceTransaction(c)

-----------------------------------------------------------------------------
Signals(documents) == {d \in DOMAIN documents : d[1] = "riskSignal"}
AllReported(t) == document[t].processed = Cardinality(Agents)

\* A signal tells of its source as it is when the signal is created, although
\* callers read it before and others change it meanwhile: of a record of the
\* caller's scope, of a task that is completed and on which all agents have
\* reported.  It stays as it is, with a receipt and an audit event.
SignalsTellTheirSource ==
    [][/\ \A s \in Signals(document') \ Signals(document) :
            LET source == document'[s].source IN
            /\ document[source].version = document'[s].version
            /\ Promotable(source)
            /\ source[1] = "detectiveTask" => AllReported(source)
            /\ {Receipt(s[2]), RiskAudit(s[2])} \subseteq DOMAIN document'
       /\ \A s \in Signals(document) : document'[s] = document[s]]_documentVars
=============================================================================
