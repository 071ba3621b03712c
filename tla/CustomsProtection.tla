------------------------- MODULE CustomsProtection -------------------------
(***************************************************************************)
(* Customs protection profiles and the border interventions opened under   *)
(* them (customs_security).                                                *)
(*                                                                         *)
(* Every write is one callable and one transaction on one entity: it looks *)
(* for the event of its request, and answers a duplicate or a conflict     *)
(* without a write when it is there; otherwise it checks its guards,       *)
(* changes the entity and creates the event.  A call may be repeated at    *)
(* any time, with the same or another content.                             *)
(*                                                                         *)
(* A profile holds, of its data, only whether it names rights and products *)
(* (grounds) and whether its validity has ended; an intervention whether   *)
(* the authentication gives a basis, the linked case, and the marks that   *)
(* its history leaves.                                                     *)
(***************************************************************************)
EXTENDS EventJournal

CONSTANTS
    Profiles,       \* ids of protection profiles
    Interventions,  \* ids of border interventions
    Cases,          \* ids of cases
    Budgets         \* bounds: how many requests each entity is sent, and
                    \* how many calls and faults there are

NoCase == "no case"
NoProfile == "no profile"

ASSUME ProtectionAssumption ==
    /\ Profiles \cap Interventions = {}
    /\ NoProfile \notin Profiles /\ NoCase \notin Cases

VARIABLES
    profile,       \* customs_protection_profiles
    intervention,  \* customs_border_interventions
    journal,       \* customs_intervention_events and the counters they keep
    budget         \* the bound of this behaviour, one of Budgets

protectionVars == <<profile, intervention, journal, budget>>

-----------------------------------------------------------------------------
profileTransitions ==
    [draft |-> {"under_review", "archived"},
     under_review |-> {"draft", "active", "archived"},
     active |-> {"suspended", "expired", "archived"},
     suspended |-> {"active", "expired", "archived"},
     expired |-> {"archived"},
     archived |-> {}]

interventionTransitions ==
    [draft |-> {"risk_review", "under_preliminary_review", "closed",
                "archived"},
     risk_review |-> {"under_preliminary_review", "temporarily_detained",
                      "closed"},
     under_preliminary_review |->
        {"temporarily_detained", "awaiting_right_holder",
         "authentication_in_progress", "infringement_not_confirmed",
         "infringement_suspected", "closed"},
     temporarily_detained |->
        {"awaiting_right_holder", "authentication_in_progress", "released",
         "referred_to_authority"},
     awaiting_right_holder |->
        {"authentication_in_progress", "infringement_not_confirmed",
         "infringement_suspected", "released", "legal_action_required"},
     authentication_in_progress |->
        {"infringement_not_confirmed", "infringement_suspected",
         "infringement_confirmed"},
     infringement_not_confirmed |-> {"released", "closed"},
     infringement_suspected |->
        {"temporarily_detained", "awaiting_right_holder",
         "authentication_in_progress", "legal_action_required", "released"},
     infringement_confirmed |->
        {"importer_objection", "legal_action_required",
         "destruction_pending", "referred_to_authority"},
     importer_objection |->
        {"authentication_in_progress", "legal_action_required",
         "destruction_pending", "released", "referred_to_authority"},
     legal_action_required |->
        {"destruction_pending", "released", "referred_to_authority",
         "closed"},
     destruction_pending |-> {"destroyed", "legal_action_required"},
     destroyed |-> {"closed"},
     released |-> {"closed"},
     referred_to_authority |-> {"legal_action_required", "closed"},
     closed |-> {"archived"},
     archived |-> {}]

ProfileStatuses == DOMAIN profileTransitions
InterventionStatuses == DOMAIN interventionTransitions

\* Outcomes that somebody answers for.
SignedStatuses ==
    {"infringement_confirmed", "destroyed", "released",
     "referred_to_authority"}

\* The payloads that pass the contracts.
ProfileData == [grounds : BOOLEAN, ended : BOOLEAN]
InterventionData ==
    [basis : BOOLEAN, case : Cases \cup {NoCase}, signal : BOOLEAN]

ProfileDocuments ==
    [status : ProfileStatuses \cup {"absent"},
     grounds : BOOLEAN, ended : BOOLEAN]
AbsentProfile == [status |-> "absent", grounds |-> FALSE, ended |-> FALSE]

InterventionDocuments ==
    [status : InterventionStatuses \cup {"absent"},
     profile : Profiles \cup {NoProfile},
     basis : BOOLEAN, case : Cases \cup {NoCase}, signal : BOOLEAN,
     approved : BOOLEAN, decided : BOOLEAN, authority : BOOLEAN]
AbsentIntervention ==
    [status |-> "absent", profile |-> NoProfile, basis |-> FALSE,
     case |-> NoCase, signal |-> FALSE, approved |-> FALSE,
     decided |-> FALSE, authority |-> FALSE]

Entities == Profiles \cup Interventions

ProtectionTypeOK ==
    /\ profile \in [Profiles -> ProfileDocuments]
    /\ intervention \in [Interventions -> InterventionDocuments]
    /\ \A e \in Entities : journal[e].count \in Nat
    /\ budget \in Budgets

ProtectionInit ==
    /\ profile = [p \in Profiles |-> AbsentProfile]
    /\ intervention = [i \in Interventions |-> AbsentIntervention]
    /\ journal = [e \in Entities |-> EmptyJournal]
    /\ budget \in Budgets

-----------------------------------------------------------------------------
\* The event of a request.
Event(r) == <<r, "event">>

\* What arrives: any earlier request again, or the next one.
Arriving(e) == SentRequests(journal[e], budget[e])

\* Mutant of Unanswered: the event of the request is not looked for.
UnansweredUnchecked(e, r) == TRUE

\* assertFingerprint: a request whose event exists is answered from it, as a
\* duplicate or a conflict, and no write is made; here that is no step.
Unanswered(e, r) == ~Recorded(journal[e], Event(r))

Log(e, r) == journal' = [journal EXCEPT ![e] = Append1(@, Event(r))]

-----------------------------------------------------------------------------
(* Profiles.  The id of a profile is derived from the request that creates *)
(* it, so a repeated creation finds the document.                          *)

Activatable(data) == data.grounds /\ ~data.ended

CreateProfile(p, data) ==
    /\ profile[p].status = "absent"
    /\ 1 \in Arriving(p) /\ Unanswered(p, 1)
    /\ profile' = [profile EXCEPT ![p] =
                     [status |-> "draft", grounds |-> data.grounds,
                      ended |-> data.ended]]
    /\ Log(p, 1)
    /\ UNCHANGED <<intervention, budget>>

\* Three events record the path from draft to active.
CreateAndActivateProfile(p, data) ==
    /\ profile[p].status = "absent"
    /\ 1 \in Arriving(p)
    /\ Activatable(data)
    /\ profile' = [profile EXCEPT ![p] =
                     [status |-> "active", grounds |-> data.grounds,
                      ended |-> data.ended]]
    /\ journal' = [journal EXCEPT ![p] =
                     Append3(@, <<1, "1">>, <<1, "2">>, <<1, "3">>)]
    /\ UNCHANGED <<intervention, budget>>

\* An update replaces all the data, of an active profile too.
UpdateProfile(p, r, data) ==
    /\ profile[p].status \notin {"absent", "archived"}
    /\ Unanswered(p, r)
    /\ profile' = [profile EXCEPT ![p].grounds = data.grounds,
                                  ![p].ended = data.ended]
    /\ Log(p, r)
    /\ UNCHANGED <<intervention, budget>>

ProfileMayBecome(p, next) ==
    /\ next \in profileTransitions[profile[p].status]
    /\ next = "active" => Activatable(profile[p])

TransitionProfile(p, r, next) ==
    /\ profile[p].status # "absent"
    /\ Unanswered(p, r)
    /\ ProfileMayBecome(p, next)
    /\ profile' = [profile EXCEPT ![p].status = next]
    /\ Log(p, r)
    /\ UNCHANGED <<intervention, budget>>

\* Time passes validUntil; the document does not change, its reading does.
ValidityEnds(p) ==
    /\ profile[p].status # "absent" /\ ~profile[p].ended
    /\ profile' = [profile EXCEPT ![p].ended = TRUE]
    /\ UNCHANGED <<intervention, journal, budget>>

-----------------------------------------------------------------------------
(* Interventions.                                                          *)

CreateIntervention(i, p, data) ==
    /\ intervention[i].status = "absent"
    /\ 1 \in Arriving(i) /\ Unanswered(i, 1)
    /\ profile[p].status = "active"
    /\ intervention' = [intervention EXCEPT ![i] =
         [AbsentIntervention EXCEPT
            !.status = "draft", !.profile = p, !.basis = data.basis,
            !.case = data.case, !.signal = data.signal]]
    /\ Log(i, 1)
    /\ UNCHANGED <<profile, budget>>

\* Mutant of CaseKept: an update without the case unlinks it.
CaseKeptUnlessCleared(i, data) ==
    intervention[i].case \in {NoCase, data.case} \/ data.case = NoCase

CaseKept(i, data) == intervention[i].case \in {NoCase, data.case}

\* An update replaces the data but keeps an integrity signal once raised.
UpdateIntervention(i, r, data) ==
    /\ intervention[i].status \notin {"absent", "archived"}
    /\ Unanswered(i, r)
    /\ CaseKept(i, data)
    /\ intervention' = [intervention EXCEPT
         ![i].basis = data.basis, ![i].case = data.case,
         ![i].signal = @ \/ data.signal]
    /\ Log(i, r)
    /\ UNCHANGED <<profile, budget>>

\* The references a transition may bring along.
References == [assessed : BOOLEAN, decided : BOOLEAN, authority : BOOLEAN]

InterventionMayBecome(i, next, refs) ==
    /\ next \in interventionTransitions[intervention[i].status]
    /\ next = "infringement_confirmed" =>
         refs.assessed /\ intervention[i].basis
    /\ next \in {"destroyed", "released"} => refs.decided
    /\ next = "referred_to_authority" => refs.authority

\* References are added to the document, never taken away.
TransitionIntervention(i, r, next, refs) ==
    /\ intervention[i].status # "absent"
    /\ Unanswered(i, r)
    /\ InterventionMayBecome(i, next, refs)
    /\ intervention' = [intervention EXCEPT
         ![i].status = next,
         ![i].approved = @ \/ next \in SignedStatuses,
         ![i].decided = @ \/ refs.decided,
         ![i].authority = @ \/ refs.authority]
    /\ Log(i, r)
    /\ UNCHANGED <<profile, budget>>

ProfileNext(p) ==
    \/ \E data \in ProfileData :
         \/ CreateProfile(p, data)
         \/ CreateAndActivateProfile(p, data)
         \/ \E r \in Arriving(p) : UpdateProfile(p, r, data)
    \/ \E r \in Arriving(p), next \in ProfileStatuses :
         TransitionProfile(p, r, next)
    \/ ValidityEnds(p)

InterventionNext(i) ==
    \/ \E data \in InterventionData :
         \/ \E p \in Profiles : CreateIntervention(i, p, data)
         \/ \E r \in Arriving(i) : UpdateIntervention(i, r, data)
    \/ \E r \in Arriving(i), next \in InterventionStatuses,
          refs \in References :
         TransitionIntervention(i, r, next, refs)

ProtectionNext ==
    \/ \E p \in Profiles : ProfileNext(p)
    \/ \E i \in Interventions : InterventionNext(i)
=============================================================================
