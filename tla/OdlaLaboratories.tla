-------------------------- MODULE OdlaLaboratories --------------------------
(***************************************************************************)
(* The registry of ODLA laboratories and their accreditations.  Every      *)
(* mutation is one transaction: it answers a known idempotency key from    *)
(* the key's document, compares the version the client expects, and writes *)
(* the entity, an audit event and the key's document.                      *)
(***************************************************************************)
EXTENDS DocumentStore

CONSTANTS
    Registrations,  \* registration authorities and numbers
    Certificates    \* accreditation bodies and certificate numbers

NoRegistration == "none"  \* a laboratory may be registered without a number

Laboratory(i) == <<"laboratory", i>>
Accreditation(i) == <<"accreditation", i>>
RegistryAudit(e, n) == <<"registryAudit", e, n>>
Key(callable, k) == <<"key", callable, k>>

LAB_TRANSITIONS ==
    {<<"ACTIVE", "SUSPENDED">>, <<"SUSPENDED", "ACTIVE">>,
     <<"ACTIVE", "RETIRED">>, <<"SUSPENDED", "RETIRED">>}

ACCREDITATION_TRANSITIONS ==
    {<<"PENDING_VERIFICATION", "ACTIVE">>,
     <<"PENDING_VERIFICATION", "REVOKED">>}
    \cup ({"ACTIVE", "SUSPENDED"} \X {"EXPIRED", "REVOKED", "SUPERSEDED"})
    \cup {<<"ACTIVE", "SUSPENDED">>, <<"SUSPENDED", "ACTIVE">>}

\* What a decision makes of the status.
reviewDecision ==
    [VERIFY_ACTIVE |-> "ACTIVE", REJECT_REVOKED |-> "REVOKED",
     SUSPEND |-> "SUSPENDED", REINSTATE |-> "ACTIVE", REVOKE |-> "REVOKED",
     SUPERSEDE |-> "SUPERSEDED", MARK_EXPIRED |-> "EXPIRED"]

\* And of the verification: only two decisions touch it.
Verified(decision, before) ==
    CASE decision = "VERIFY_ACTIVE" -> TRUE
      [] decision = "REJECT_REVOKED" -> FALSE
      [] OTHER -> before

Keys(callable) == {d \in Kind("key") : d[2] = callable}
SentKeys(callable) == 1 .. Cardinality(Keys(callable)) + 1

\* A key that is known is answered from its document, or refused for another
\* request: nothing is written.
Unused(callable, k) == ~Exists(Key(callable, k))

Entities == Kind("laboratory") \cup Kind("accreditation")

\* The entity with its next version, the audit event and the key's document.
Mutation(callable, k, e, version, x, type) ==
    LET previous == IF Exists(e) THEN document[e].lastAudit ELSE <<>> IN
    /\ Unused(callable, k)
    /\ Transact(
         e :> (x @@ [version |-> version,
                     lastAudit |-> RegistryAudit(e, version)])
         @@ RegistryAudit(e, version) :> [type |-> type,
                                          previous |-> previous]
         @@ Key(callable, k) :> [of |-> RegistryAudit(e, version)])

RegisterLaboratory(k, i, registration) ==
    /\ ~Exists(Laboratory(i))
    /\ registration # NoRegistration =>
         ~ \E l \in Kind("laboratory") :
             document[l].registration = registration
    /\ Mutation("registerOdlaLaboratory", k, Laboratory(i), 1,
         [status |-> "ACTIVE", registration |-> registration],
         "LABORATORY_REGISTERED")

SubmitAccreditation(k, i, l, certificate) ==
    /\ ~Exists(Accreditation(i))
    /\ Exists(Laboratory(l)) /\ document[Laboratory(l)].status # "RETIRED"
    /\ ~ \E a \in Kind("accreditation") :
           document[a].certificate = certificate
    /\ Mutation("submitOdlaLaboratoryAccreditation", k, Accreditation(i), 1,
         [status |-> "PENDING_VERIFICATION", verified |-> FALSE,
          laboratory |-> l, certificate |-> certificate],
         "ACCREDITATION_SUBMITTED")

Expected(e, version) == document[e].version = version

\* The laboratory is not looked at: it may be suspended or retired by now.
ReviewAccreditation(k, i, version, decision) ==
    LET a == Accreditation(i) IN
    /\ Exists(a) /\ Expected(a, version)
    /\ <<document[a].status, reviewDecision[decision]>>
         \in ACCREDITATION_TRANSITIONS
    /\ Mutation("reviewOdlaLaboratoryAccreditation", k, a, version + 1,
         [document[a] EXCEPT
           !.status = reviewDecision[decision],
           !.verified = Verified(decision, @),
           !.version = version + 1, !.lastAudit = RegistryAudit(a, version + 1)],
         decision)

ChangeLaboratoryStatus(k, i, version, target) ==
    LET l == Laboratory(i) IN
    /\ Exists(l) /\ Expected(l, version)
    /\ <<document[l].status, target>> \in LAB_TRANSITIONS
    /\ Mutation("changeOdlaLaboratoryStatus", k, l, version + 1,
         [document[l] EXCEPT
           !.status = target,
           !.version = version + 1, !.lastAudit = RegistryAudit(l, version + 1)],
         target)

\* evaluateCoverage within the validity of accreditation and scope, whose
\* status never changes.
Covered(a) == document[a].verified /\ document[a].status = "ACTIVE"

Versions(e) == 1 .. IF Exists(e) THEN document[e].version ELSE 0

LaboratoriesNext ==
    /\ Room("registryAudit")
    /\ \/ \E k \in SentKeys("registerOdlaLaboratory"),
             i \in Chosen("laboratory"),
             registration \in Registrations \cup {NoRegistration} :
            RegisterLaboratory(k, i, registration)
       \/ \E k \in SentKeys("submitOdlaLaboratoryAccreditation"),
             i \in Chosen("accreditation"),
             l \in 1 .. Cardinality(Kind("laboratory")),
             certificate \in Certificates :
            SubmitAccreditation(k, i, l, certificate)
       \/ \E k \in SentKeys("reviewOdlaLaboratoryAccreditation"),
             i \in 1 .. Cardinality(Kind("accreditation")) :
            \E version \in Versions(Accreditation(i)),
               decision \in DOMAIN reviewDecision :
              ReviewAccreditation(k, i, version, decision)
       \/ \E k \in SentKeys("changeOdlaLaboratoryStatus"),
             i \in 1 .. Cardinality(Kind("laboratory")) :
            \E version \in Versions(Laboratory(i)),
               target \in {"ACTIVE", "SUSPENDED", "RETIRED"} :
              ChangeLaboratoryStatus(k, i, version, target)

-----------------------------------------------------------------------------
AuditsOf(e) == {d \in Kind("registryAudit") : d[2] = e}
Last(e) == document[document[e].lastAudit].type

\* The audit events of an entity are one chain up to its version, each of one
\* idempotency key; no two laboratories share a registration nor two
\* accreditations a certificate.  An accreditation covers results only when
\* the events tell that it was verified and is back from every suspension.
RegistryWhole ==
    /\ \A e \in Entities :
         /\ AuditsOf(e) = {RegistryAudit(e, n) : n \in Versions(e)}
         /\ document[e].lastAudit = RegistryAudit(e, document[e].version)
         /\ \A n \in Versions(e) : document[RegistryAudit(e, n)].previous
              = IF n = 1 THEN <<>> ELSE RegistryAudit(e, n - 1)
    /\ Kind("registryAudit") = {document[k].of : k \in Kind("key")}
    /\ Cardinality(Kind("registryAudit")) = Cardinality(Kind("key"))
    /\ \A l, m \in Kind("laboratory") :
         document[l].registration = document[m].registration =>
           l = m \/ document[l].registration = NoRegistration
    /\ \A a, b \in Kind("accreditation") :
         document[a].certificate = document[b].certificate => a = b
    /\ \A a \in Kind("accreditation") : Covered(a) =>
         /\ Last(a) \in {"VERIFY_ACTIVE", "REINSTATE"}
         /\ \E d \in AuditsOf(a) : document[d].type = "VERIFY_ACTIVE"
=============================================================================
