--------------------------- MODULE BrandOnboarding ---------------------------
(***************************************************************************)
(* How a brand comes to the platform: the review of its application, a     *)
(* request for a subscription, and the tenant of the internal pilot that   *)
(* an administrator provisions; and the gate that an administrator passes  *)
(* by a code, which closes for a while after five failures.                *)
(***************************************************************************)
EXTENDS DocumentStore

CONSTANT Users  \* applicants and administrators

Application(i) == <<"brandApplication", i>>
Brand(u) == <<"brand", u>>
SubscriptionRequest(u, r) == <<"subscription", u, r>>
EntryAttempts(u) == <<"entryAttempts", u>>

Tenant == <<"tenant", "tenant">>
TenantBrand == <<"tenant", "brand">>
Membership(u) == <<"tenant", "membership", u>>
TenantReceipt == <<"tenant", "receipt">>
TenantAudit == <<"tenant", "audit">>

MaxEntryFailures == 5

-----------------------------------------------------------------------------
\* External: an application is made.
Apply(u) ==
    Transact(Application(NextOf("brandApplication")) :>
               [applicant |-> u, status |-> "pending"])

Decidable(d) == document[d].status \in {"pending", "under_review"}

\* A brand that the applicant has stays as it is.
ReviewBrandApplication(d, decision) ==
    LET brand == Brand(document[d].applicant) IN
    /\ Decidable(d)
    /\ Transact(
         d :> [document[d] EXCEPT !.status = decision]
         @@ IF decision = "approved" /\ ~Exists(brand)
            THEN brand :> [application |-> d] ELSE <<>>)

-----------------------------------------------------------------------------
\* A request that is known is answered if it asks for the same.
CreateSubscriptionRequest(u, r, product) ==
    /\ ~Exists(SubscriptionRequest(u, r))
    /\ Transact(SubscriptionRequest(u, r) :>
                  [product |-> product, status |-> "requested"])

-----------------------------------------------------------------------------
\* The documents of the tenant that administrator u provisions.  All of them
\* are the same for every administrator, but the membership.
TenantDocuments(u) ==
    {Tenant, TenantBrand, Membership(u), TenantReceipt, TenantAudit}

\* None of them there is empty; some is a conflict, and so are all of them
\* unless u provisioned them: both are answered, and nothing is written.
stateOutcome(u) ==
    LET present == {d \in TenantDocuments(u) : Exists(d)} IN
    IF present = {} THEN "empty"
    ELSE IF present = TenantDocuments(u)
              /\ \A d \in present : document[d].creator = u
      THEN "complete"
    ELSE "conflict"

ProvisionInternalTenant(u) ==
    /\ stateOutcome(u) = "empty"
    /\ Transact([d \in TenantDocuments(u) |-> [creator |-> u]])

-----------------------------------------------------------------------------
\* The clock is read before the transaction; a lock that is set meanwhile is
\* later still.
Attempts(u) == IF Exists(EntryAttempts(u)) THEN document[EntryAttempts(u)]
               ELSE [failed |-> 0, locked |-> FALSE]

VerifyAdminEntryGate(u, codeMatches) ==
    LET failed == Attempts(u).failed + 1
        locks == failed >= MaxEntryFailures IN
    /\ ~Attempts(u).locked
    /\ Transact(EntryAttempts(u) :>
         IF codeMatches THEN [failed |-> 0, locked |-> FALSE]
         ELSE [failed |-> IF locks THEN 0 ELSE failed, locked |-> locks])

\* External: the lock is over.
LockEnds(u) ==
    /\ Attempts(u).locked
    /\ Transact(EntryAttempts(u) :> [failed |-> 0, locked |-> FALSE])

BrandOnboardingNext ==
    \E u \in Users :
      \/ Room("brandApplication") /\ Apply(u)
      \/ \E d \in Kind("brandApplication"),
            decision \in {"under_review", "approved", "rejected"} :
           document[d].applicant = u /\ ReviewBrandApplication(d, decision)
      \/ \E r \in 1 .. Bound("subscription"), product \in {"a", "b"} :
           CreateSubscriptionRequest(u, r, product)
      \/ Bound("tenant") = 1 /\ ProvisionInternalTenant(u)
      \/ /\ Bound("entry") = 1
         /\ \/ \E codeMatches \in BOOLEAN : VerifyAdminEntryGate(u, codeMatches)
            \/ LockEnds(u)

-----------------------------------------------------------------------------
\* A brand is that of an application of its owner which was approved, an
\* approved application has its brand, and the tenant of the pilot has all of
\* its documents, of one administrator, or none.
BrandsApproved ==
    /\ \A d \in Kind("brand") :
         LET application == document[document[d].application] IN
         application.applicant = d[2] /\ application.status = "approved"
    /\ \A d \in Kind("brandApplication") :
         document[d].status = "approved" => Exists(Brand(document[d].applicant))
    /\ Kind("tenant") # {} =>
         \E u \in Users : Kind("tenant") = TenantDocuments(u)
=============================================================================
