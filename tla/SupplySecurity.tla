--------------------------- MODULE SupplySecurity ---------------------------
(***************************************************************************)
(* Supply security: the controls of partners and of their facilities, and  *)
(* the production assets that are at them.  Partners, facilities, and the  *)
(* archiving or destruction of a record are not of the functions: they are *)
(* external.                                                               *)
(***************************************************************************)
EXTENDS DocumentStore

Partner(i) == <<"partner", i>>
Facility(i) == <<"facility", i>>
ProtectionControl(i) == <<"control", i>>
ProductionAsset(i) == <<"asset", i>>

NoTarget == <<>>
Partners == Kind("partner") \cup {NoTarget}
Facilities == Kind("facility") \cup {NoTarget}

-----------------------------------------------------------------------------
\* External.
CreateTarget(partner) ==
    \/ Room("partner") /\ Transact(Partner(NextOf("partner")) :>
                                     [status |-> "active"])
    \/ Room("facility") /\ Transact(Facility(NextOf("facility")) :>
                                      [status |-> "active",
                                       partner |-> partner])

Withdraw(d, status) == Transact(d :> [document[d] EXCEPT !.status = status])

-----------------------------------------------------------------------------
Linkable(d) == d # NoTarget => document[d].status # "archived"

\* The targets of a record: each unarchived, the facility one of the partner
\* when both are named.
validateTargets(partner, facility) ==
    /\ Linkable(partner) /\ Linkable(facility)
    /\ partner # NoTarget /\ facility # NoTarget
         => document[facility].partner = partner

\* A control has the one, the other, or both, by its scope.
validateTargetShape(partner, facility) ==
    partner # NoTarget \/ facility # NoTarget

\* The id is that of the code.
CreateSupplyProtectionControl(i, partner, facility) ==
    /\ ~Exists(ProtectionControl(i))
    /\ validateTargetShape(partner, facility)
    /\ validateTargets(partner, facility)
    /\ Transact(ProtectionControl(i) :>
         [status |-> "planned", failed |-> FALSE, corrected |-> FALSE,
          partner |-> partner, facility |-> facility])

\* A control that failed says what corrects it.
UpdateSupplyProtectionControl(d, status, failed, corrected, partner, facility) ==
    /\ document[d].status # "archived"
    /\ failed => corrected
    /\ validateTargetShape(partner, facility)
    /\ validateTargets(partner, facility)
    /\ Transact(d :> [status |-> status, failed |-> failed,
                      corrected |-> corrected,
                      partner |-> partner, facility |-> facility])

CreateSupplyProductionAsset(i, partner, facility) ==
    /\ ~Exists(ProductionAsset(i))
    /\ validateTargets(partner, facility)
    /\ Transact(ProductionAsset(i) :>
         [status |-> "draft", partner |-> partner, facility |-> facility])

\* Mutant of InUse: what was destroyed is moved.
InUseOrDestroyed(d) == document[d].status # "archived"

InUse(d) == document[d].status \notin {"archived", "destroyed"}

UpdateSupplyProductionAsset(d, partner, facility) ==
    /\ InUse(d)
    /\ validateTargets(partner, facility)
    /\ Transact(d :> [document[d] EXCEPT !.partner = partner,
                                         !.facility = facility])

SupplySecurityNext ==
    \/ \E partner \in Kind("partner") \cup {NoTarget} : CreateTarget(partner)
    \/ \E d \in UNION {Kind(k) : k \in {"partner", "facility", "control"}} :
         Withdraw(d, "archived")
    \/ \E d \in Kind("asset"), status \in {"archived", "destroyed"} :
         InUse(d) /\ Withdraw(d, status)
    \/ \E partner \in Partners, facility \in Facilities :
         \/ \E i \in Chosen("control") :
              CreateSupplyProtectionControl(i, partner, facility)
         \/ \E d \in Kind("control"), failed, corrected \in BOOLEAN,
               status \in {"planned", "cancelled"} :
              UpdateSupplyProtectionControl(d, status, failed, corrected,
                                            partner, facility)
         \/ \E i \in Chosen("asset") :
              CreateSupplyProductionAsset(i, partner, facility)
         \/ \E d \in Kind("asset") :
              UpdateSupplyProductionAsset(d, partner, facility)
=============================================================================
