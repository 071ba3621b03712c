------------------------------ MODULE Platform ------------------------------
(***************************************************************************)
(* The callables over the document store, together: any call of any of     *)
(* them may come between the read and the transaction of another.  The     *)
(* cases are those of risk signals, of the tasks of the digital detective  *)
(* and of verification scans; the other services share the store only.     *)
(***************************************************************************)
EXTENDS OdlaWorkspace, OdlaLaboratories, EvidenceObjects, CounterfeitTwins,
        IpPriority, SponsorContent, SupplySecurity, BrandOnboarding

PlatformNext ==
    \/ \E c \in Calls :
         \/ WorkspaceNext(c)
         \/ DetectiveNext(c)
         \/ RiskNext(c)
         \/ CasesNext(c)
         \/ UploadsNext(c)
         \/ SponsorNext(c)
         \/ GiveUp(c)
    \/ LaboratoriesNext
    \/ TraceabilityNext
    \/ CounterfeitTwinsNext
    \/ IpPriorityNext
    \/ SupplySecurityNext
    \/ BrandOnboardingNext

PlatformSpec == DocumentsInit /\ [][PlatformNext]_documentVars

-----------------------------------------------------------------------------
\* The public sees what was decided, whatever is decided at the same time:
\* the comparisons, the logos and the brands.
PublicationsTold == ComparisonsTold /\ LogosStored /\ BrandsApproved

\* The authorities' books: custody, the audit of the workspace, the registry.
AuthoritiesWhole == CustodyChained /\ AuditWhole /\ RegistryWhole

\* Documents that nobody touches any more.
WrittenOnce ==
    {"event", "result", "finding", "audit", "registryAudit", "agentResult",
     "riskSignal", "riskReceipt", "riskAudit", "caseEvent", "recordEvent",
     "package", "evidenceObject", "permanent", "traceabilityCase",
     "comparison", "reportDeletion", "ownerNumber", "registryOwner", "brand",
     "subscription", "tenant"}

EndStatus ==
    [reviewTask |-> {"completed", "cancelled"}, hold |-> {"released"},
     twinReport |-> {"published"},
     twinRecord |-> {"archived"}, control |-> {"archived"},
     asset |-> {"archived"}, brandApplication |-> {"approved", "rejected"},
     party |-> {"inactive"}, relationship |-> {"inactive"}]

Ended(d) ==
    \/ d[1] \in WrittenOnce
    \/ /\ d[1] \in DOMAIN EndStatus
       /\ document[d].status \in EndStatus[d[1]]
    \/ d[1] = "creationVersion" /\ document[d].seal = "sealed"
    \/ d[1] = "asset" /\ document[d].status = "destroyed"

\* What is written once stays, and what has ended stays as it was: the events,
\* audits and packages, the sealed versions, and the records that are archived,
\* released, published or decided; no call brings one back or writes over it,
\* one that had read it before neither.
EndedStands ==
    [][\A d \in DOMAIN document :
         Ended(d) => d \in DOMAIN document' /\ document'[d] = document[d]]_documentVars

=============================================================================
