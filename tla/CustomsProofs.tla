--------------------------- MODULE CustomsProofs ---------------------------
(***************************************************************************)
(* Proofs about CustomsArtifact, and so about the protection profiles,     *)
(* interventions and submissions that it extends: histories stay whole,    *)
(* what is on record stays, what was sent stands, and a ready artifact is  *)
(* stored, for any number of entities, requests, versions and calls.       *)
(*                                                                         *)
(* The inductive invariant has a part for each of the three modules.  That *)
(* of a module speaks of its variables and of those of the modules below,  *)
(* so the operations above leave it alone; only the publication of an      *)
(* artifact writes to the history of its submission.                       *)
(***************************************************************************)
EXTENDS CustomsArtifact, FiniteSetTheorems, TLAPS

-----------------------------------------------------------------------------
(* The inductive invariant.                                                *)

\* A whole journal whose events can be counted.
SoundJournal(j) ==
    j.count \in Nat /\ IsFiniteSet(DOMAIN j.events) /\ WholeJournal(j)

\* What one intervention rests on: its profile, and the sign-off and the
\* reference that its status asks for.  Before it exists nothing is on record.
InterventionStands(d) ==
    /\ d.status = "absent" =>
         d.case = NoCase /\ ~d.signal /\ ~d.approved /\ ~d.decided
    /\ d.status # "absent" =>
         d.profile \in Profiles /\ profile[d.profile].status # "absent"
    /\ d.status \in SignedStatuses => d.approved
    /\ d.status \in {"destroyed", "released"} => d.decided
    /\ d.status = "referred_to_authority" => d.authority

\* A profile that does not exist has no events, so that the three events of
\* its creation are new.
ProtectionInv ==
    /\ ProtectionTypeOK
    /\ DOMAIN journal = Entities
    /\ \A e \in Entities : SoundJournal(journal[e])
    /\ \A p \in Profiles :
         profile[p].status = "absent" => DOMAIN journal[p].events = {}
    /\ \A i \in Interventions : InterventionStands(intervention[i])

\* Statuses of a submission that went out; none leads back to the others.
SentStatuses ==
    {"submitted_externally", "receipt_recorded", "authority_review",
     "additional_information_requested", "concluded", "withdrawn",
     "archived"}

\* What the status of a submission says of its approvals, of the package
\* that was sent and of the outcome.
SubmissionStands(s) ==
    LET d == submission[s] IN
    /\ d.status # "absent" => d.unit \in Units
    /\ d.status = "absent" => response[s] = {}
    /\ d.status \in {"approved_for_package", "package_generated"} => Gates(s)
    /\ d.external # 0 =>
         /\ d.status \in SentStatuses
         /\ d.external = d.current
         /\ package[s][d.external] # "absent"
         /\ Gates(s)
    /\ d.outcome # 0 =>
         /\ d.external # 0
         /\ d.outcome \in response[s]
         /\ d.status \in {"concluded", "archived"}

\* What a package froze.
PackagesStand(s) ==
    \A v \in Versions :
      package[s][v] # "absent" =>
        /\ submission[s].status # "absent"
        /\ SubmissionType[s] = "fsmh_protection_application" =>
             package[s][v] = "active"

\* The event of a conclusion goes with that of its response.
ConclusionsFollow(log) ==
    \A r \in Nat : Recorded(log, <<r, "concluded">>) => Recorded(log, Event(r))

SubmissionInv ==
    /\ SubmissionTypeOK
    /\ DOMAIN response = Submissions
    /\ DOMAIN history = Submissions
    /\ \A s \in Submissions :
         /\ IsFiniteSet(response[s])
         /\ SoundJournal(history[s])
         /\ ConclusionsFollow(history[s])
         /\ DetailVerified(s)
         /\ SubmissionStands(s)
         /\ PackagesStand(s)

\* A call that has stored its objects finds them rendered from the unit it
\* reserved with.
CallStands(c) ==
    LET o == object[work[c].sub][work[c].version] IN
    /\ work[c].pc \in {"pdf", "json", "finalize"} => work[c].unit \in Units
    /\ work[c].pc \in {"json", "finalize"} => o["pdf"] = work[c].unit
    /\ work[c].pc = "finalize" => o["json"] = work[c].unit

ArtifactInv ==
    /\ ArtifactTypeOK
    /\ \A c \in Calls : CallStands(c)
    /\ ReadyArtifactStored

CustomsInv == ProtectionInv /\ SubmissionInv /\ ArtifactInv

-----------------------------------------------------------------------------
(* Journals.                                                               *)

LEMMA EmptyIsSound ==
  SoundJournal(EmptyJournal) /\ DOMAIN EmptyJournal.events = {}
  <1>1. /\ EmptyJournal.count = 0 /\ EmptyJournal.last = NoEvent
        /\ DOMAIN EmptyJournal.events = {}
    BY DEF EmptyJournal
  <1>2. IsFiniteSet({}) /\ Cardinality({}) = 0
    BY FS_EmptySet
  <1>3. WholeJournal(EmptyJournal)
    BY <1>1, <1>2 DEF WholeJournal
  <1> QED BY <1>1, <1>2, <1>3 DEF SoundJournal

\* Recording a new event keeps a journal whole.
LEMMA AppendIsSound ==
  ASSUME NEW j, NEW id, SoundJournal(j), ~Recorded(j, id)
  PROVE  /\ SoundJournal(Append1(j, id))
         /\ \A x : Recorded(Append1(j, id), x) <=> x = id \/ Recorded(j, x)
  <1> DEFINE D == DOMAIN j.events
             n == j.count + 1
             k == Append1(j, id)
             E == DOMAIN k.events
  <1>1. /\ k.count = n /\ k.last = id
        /\ E = D \cup {id}
        /\ k.events[id].sequence = n /\ k.events[id].previous = j.last
        /\ \A i \in D : i # id => k.events[i] = j.events[i]
    BY DEF Append1
  <1>2. id \notin D
    BY DEF Recorded
  <1>3. j.count \in Nat /\ IsFiniteSet(D) /\ j.count = Cardinality(D)
    BY DEF SoundJournal, WholeJournal
  <1>4. IsFiniteSet(E) /\ Cardinality(E) = n
    BY <1>1, <1>2, <1>3, FS_AddElement, SMTT(30)
  <1>5. {k.events[i].sequence : i \in E} = 1 .. n
    <2>1. {j.events[i].sequence : i \in D} = 1 .. j.count
      BY DEF SoundJournal, WholeJournal
    <2>2. \A i \in E : k.events[i].sequence \in 1 .. n
      BY <1>1, <1>2, <1>3, <2>1
    <2>3. ASSUME NEW q \in 1 .. n
          PROVE  \E i \in E : k.events[i].sequence = q
      <3>1. CASE q = n
        BY <3>1, <1>1
      <3>2. CASE q # n
        <4>1. q \in 1 .. j.count
          BY <3>2, <1>3
        <4>2. PICK i \in D : j.events[i].sequence = q
          BY <4>1, <2>1
        <4> QED BY <4>2, <1>1, <1>2
      <3> QED BY <3>1, <3>2
    <2> QED BY <2>2, <2>3
  <1>6. ASSUME NEW i \in E
        PROVE  IF k.events[i].sequence = 1
               THEN k.events[i].previous = NoEvent
               ELSE \E before \in E :
                      /\ k.events[i].previous = before
                      /\ k.events[before].sequence + 1 = k.events[i].sequence
    <2>1. CASE i = id
      <3>1. CASE D = {}
        <4>1. n = 1
          BY <3>1, <1>3, FS_EmptySet
        <4>2. j.last = NoEvent
          BY <3>1 DEF SoundJournal, WholeJournal
        <4> QED BY <2>1, <4>1, <4>2, <1>1
      <3>2. CASE D # {}
        <4>1. j.last \in D /\ j.events[j.last].sequence = j.count
          BY <3>2 DEF SoundJournal, WholeJournal
        <4>2. n # 1
          BY <3>2, <1>3, FS_EmptySet
        <4>3. k.events[j.last].sequence + 1 = n
          BY <4>1, <1>1, <1>2
        <4> QED BY <2>1, <4>1, <4>2, <4>3, <1>1
      <3> QED BY <3>1, <3>2
    <2>2. CASE i # id
      <3>1. i \in D /\ k.events[i] = j.events[i]
        BY <2>2, <1>1
      <3>2. IF j.events[i].sequence = 1 THEN j.events[i].previous = NoEvent
            ELSE \E before \in D :
                   /\ j.events[i].previous = before
                   /\ j.events[before].sequence + 1 = j.events[i].sequence
        BY <3>1 DEF SoundJournal, WholeJournal
      <3>3. \A before \in D : before \in E /\ k.events[before] = j.events[before]
        BY <1>1, <1>2
      <3> QED BY <3>1, <3>2, <3>3
    <2> QED BY <2>1, <2>2
  <1>7. WholeJournal(k)
    BY <1>1, <1>4, <1>5, <1>6 DEF WholeJournal
  <1>8. SoundJournal(k)
    BY <1>1, <1>3, <1>4, <1>7 DEF SoundJournal
  <1>9. \A x : Recorded(k, x) <=> x = id \/ Recorded(j, x)
    BY <1>1 DEF Recorded
  <1> QED BY <1>8, <1>9

-----------------------------------------------------------------------------
(* Profiles and interventions.                                             *)

\* Transitions lead to known statuses.
LEMMA TransitionsKnown ==
  /\ \A x \in ProfileStatuses : profileTransitions[x] \subseteq ProfileStatuses
  /\ \A x \in InterventionStatuses :
       interventionTransitions[x] \subseteq InterventionStatuses
  /\ \A x \in SubmissionStatuses :
       submissionTransitions[x] \subseteq SubmissionStatuses
  <1>1. \A x \in ProfileStatuses : profileTransitions[x] \subseteq ProfileStatuses
    BY DEF ProfileStatuses, profileTransitions
  <1>2. \A x \in InterventionStatuses :
          interventionTransitions[x] \subseteq InterventionStatuses
    BY DEF InterventionStatuses, interventionTransitions
  <1>3. \A x \in SubmissionStatuses :
          submissionTransitions[x] \subseteq SubmissionStatuses
    BY DEF SubmissionStatuses, submissionTransitions
  <1> QED BY <1>1, <1>2, <1>3

\* No status is called "absent".
LEMMA StatusesNamed ==
  /\ "absent" \notin ProfileStatuses
  /\ {"draft", "active"} \subseteq ProfileStatuses
  /\ "absent" \notin InterventionStatuses /\ "draft" \in InterventionStatuses
  /\ "absent" \notin SubmissionStatuses
  /\ {"draft", "package_generated", "submitted_externally",
      "receipt_recorded", "additional_information_requested", "concluded"}
       \subseteq SubmissionStatuses
  BY DEF ProfileStatuses, profileTransitions, InterventionStatuses,
         interventionTransitions, SubmissionStatuses, submissionTransitions

\* A request that is answered with a write is recorded in one new event.
LEMMA LogIsSound ==
  ASSUME ProtectionInv, NEW e \in Entities, NEW r, Unanswered(e, r), Log(e, r)
  PROVE  /\ DOMAIN journal' = Entities
         /\ \A x \in Entities : SoundJournal(journal'[x])
         /\ \A x \in Entities : x # e => journal'[x] = journal[x]
  <1>1. journal'[e] = Append1(journal[e], Event(r))
    BY DEF Log, ProtectionInv
  <1>2. SoundJournal(journal'[e])
    BY <1>1, AppendIsSound DEF Unanswered, ProtectionInv
  <1> QED BY <1>2 DEF Log, ProtectionInv

\* A step of a profile leaves the others and the interventions alone.
LEMMA ProfileEffect ==
  ASSUME ProtectionInv, NEW p \in Profiles, ProfileNext(p)
  PROVE  /\ profile' \in [Profiles -> ProfileDocuments]
         /\ profile'[p].status # "absent"
         /\ \A x \in Profiles : x # p => profile'[x] = profile[x]
         /\ UNCHANGED <<intervention, budget>>
         /\ DOMAIN journal' = Entities
         /\ \A x \in Entities : SoundJournal(journal'[x])
         /\ \A x \in Entities : x # p => journal'[x] = journal[x]
  <1> DEFINE Goal ==
        /\ profile' \in [Profiles -> ProfileDocuments]
        /\ profile'[p].status # "absent"
        /\ \A x \in Profiles : x # p => profile'[x] = profile[x]
        /\ UNCHANGED <<intervention, budget>>
        /\ DOMAIN journal' = Entities
        /\ \A x \in Entities : SoundJournal(journal'[x])
        /\ \A x \in Entities : x # p => journal'[x] = journal[x]
  <1>1. /\ profile \in [Profiles -> ProfileDocuments]
        /\ p \in Entities
        /\ DOMAIN journal = Entities
        /\ \A x \in Entities : SoundJournal(journal[x])
    BY DEF ProtectionInv, ProtectionTypeOK, Entities
  <1>2. ASSUME NEW data \in ProfileData, CreateProfile(p, data)
        PROVE  Goal
    <2>1. profile' \in [Profiles -> ProfileDocuments]
      BY <1>1, <1>2, StatusesNamed DEF CreateProfile, ProfileDocuments, ProfileData
    <2> QED
      BY <1>1, <1>2, <2>1, LogIsSound DEF CreateProfile
  <1>3. ASSUME NEW data \in ProfileData, CreateAndActivateProfile(p, data)
        PROVE  Goal
    <2> DEFINE j0 == journal[p]
               j1 == Append1(j0, <<1, "1">>)
               j2 == Append1(j1, <<1, "2">>)
               j3 == Append1(j2, <<1, "3">>)
    <2>1. profile' \in [Profiles -> ProfileDocuments]
      BY <1>1, <1>3, StatusesNamed
      DEF CreateAndActivateProfile, ProfileDocuments, ProfileData
    <2>2. \A x : ~Recorded(j0, x)
      BY <1>3 DEF CreateAndActivateProfile, ProtectionInv, Recorded
    <2>3. SoundJournal(j1) /\ \A x : Recorded(j1, x) <=> x = <<1, "1">>
      BY <1>1, <2>2, AppendIsSound
    <2>4. SoundJournal(j2)
          /\ \A x : Recorded(j2, x) <=> x = <<1, "2">> \/ Recorded(j1, x)
      <3>1. ~Recorded(j1, <<1, "2">>)
        BY <2>3
      <3> HIDE DEF j1
      <3> QED BY <2>3, <3>1, AppendIsSound
    <2>5. SoundJournal(j3)
      <3>1. ~Recorded(j2, <<1, "3">>)
        BY <2>3, <2>4
      <3> HIDE DEF j2
      <3> QED BY <2>4, <3>1, AppendIsSound
    <2>6. journal' = [journal EXCEPT ![p] = j3]
      BY <1>3 DEF CreateAndActivateProfile, Append3, Append2
    <2> HIDE DEF j3
    <2> QED
      BY <1>1, <1>3, <2>1, <2>5, <2>6 DEF CreateAndActivateProfile
  <1>4. ASSUME NEW data \in ProfileData, NEW r \in Arriving(p),
               UpdateProfile(p, r, data)
        PROVE  Goal
    <2>1. profile' \in [Profiles -> ProfileDocuments]
      BY <1>1, <1>4, ZenonT(30)
      DEF UpdateProfile, ProfileDocuments, ProfileData
    <2> QED
      BY <1>1, <1>4, <2>1, LogIsSound DEF UpdateProfile, ProfileDocuments
  <1>5. ASSUME NEW r \in Arriving(p), NEW next \in ProfileStatuses,
               TransitionProfile(p, r, next)
        PROVE  Goal
    <2>1. profile' \in [Profiles -> ProfileDocuments]
      BY <1>1, <1>5 DEF TransitionProfile, ProfileDocuments
    <2> QED
      BY <1>1, <1>5, <2>1, LogIsSound, StatusesNamed
      DEF TransitionProfile, ProfileDocuments
  <1>6. ASSUME ValidityEnds(p)
        PROVE  Goal
    <2>1. profile' \in [Profiles -> ProfileDocuments]
      BY <1>1, <1>6 DEF ValidityEnds, ProfileDocuments
    <2> QED
      BY <1>1, <1>6, <2>1 DEF ValidityEnds, ProfileDocuments
  <1> QED
    BY <1>2, <1>3, <1>4, <1>5, <1>6 DEF ProfileNext

\* A step of an intervention leaves the others and the profiles alone, and
\* what the intervention has on record.
RecordKept(before, after) ==
    /\ before.case # NoCase => after.case = before.case
    /\ before.signal => after.signal
    /\ before.approved => after.approved
    /\ before.decided => after.decided

LEMMA InterventionEffect ==
  ASSUME ProtectionInv, NEW i \in Interventions, InterventionNext(i)
  PROVE  /\ intervention' \in [Interventions -> InterventionDocuments]
         /\ InterventionStands(intervention'[i])
         /\ RecordKept(intervention[i], intervention'[i])
         /\ \A x \in Interventions : x # i => intervention'[x] = intervention[x]
         /\ UNCHANGED <<profile, budget>>
         /\ DOMAIN journal' = Entities
         /\ \A x \in Entities : SoundJournal(journal'[x])
         /\ \A x \in Entities : x # i => journal'[x] = journal[x]
  <1> DEFINE Goal ==
        /\ intervention' \in [Interventions -> InterventionDocuments]
        /\ InterventionStands(intervention'[i])
        /\ RecordKept(intervention[i], intervention'[i])
        /\ \A x \in Interventions : x # i => intervention'[x] = intervention[x]
        /\ UNCHANGED <<profile, budget>>
        /\ DOMAIN journal' = Entities
        /\ \A x \in Entities : SoundJournal(journal'[x])
        /\ \A x \in Entities : x # i => journal'[x] = journal[x]
  <1>1. /\ intervention \in [Interventions -> InterventionDocuments]
        /\ intervention[i] \in InterventionDocuments
        /\ InterventionStands(intervention[i])
        /\ i \in Entities
    BY DEF ProtectionInv, ProtectionTypeOK, Entities
  <1>2. ASSUME NEW data \in InterventionData, NEW p \in Profiles,
               CreateIntervention(i, p, data)
        PROVE  Goal
    <2>1. /\ intervention'[i].status = "draft"
          /\ intervention'[i].profile = p
          /\ intervention' \in [Interventions -> InterventionDocuments]
      BY <1>1, <1>2, StatusesNamed
      DEF CreateIntervention, InterventionDocuments, InterventionData,
          AbsentIntervention
    <2>2. profile[p].status # "absent"
      BY <1>2 DEF CreateIntervention
    <2>3. InterventionStands(intervention'[i])
      BY <2>1, <2>2 DEF InterventionStands, SignedStatuses
    <2>4. RecordKept(intervention[i], intervention'[i])
      BY <1>1, <1>2 DEF RecordKept, InterventionStands, CreateIntervention
    <2> QED
      BY <1>1, <1>2, <2>1, <2>3, <2>4, LogIsSound DEF CreateIntervention
  <1>3. ASSUME NEW data \in InterventionData, NEW r \in Arriving(i),
               UpdateIntervention(i, r, data)
        PROVE  Goal
    <2>1. intervention' \in [Interventions -> InterventionDocuments]
      BY <1>1, <1>3
      DEF UpdateIntervention, InterventionDocuments, InterventionData
    <2>2. /\ intervention'[i].status = intervention[i].status
          /\ intervention'[i].profile = intervention[i].profile
          /\ intervention'[i].approved = intervention[i].approved
          /\ intervention'[i].decided = intervention[i].decided
          /\ intervention'[i].authority = intervention[i].authority
          /\ intervention'[i].case = data.case
          /\ intervention'[i].signal = (intervention[i].signal \/ data.signal)
      BY <1>1, <1>3 DEF UpdateIntervention, InterventionDocuments
    <2>3. InterventionStands(intervention'[i])
      BY <1>1, <1>3, <2>2 DEF InterventionStands, UpdateIntervention
    <2>4. RecordKept(intervention[i], intervention'[i])
      BY <1>3, <2>2 DEF RecordKept, UpdateIntervention, CaseKept
    <2> QED
      BY <1>1, <1>3, <2>1, <2>3, <2>4, LogIsSound DEF UpdateIntervention
  <1>4. ASSUME NEW r \in Arriving(i), NEW next \in InterventionStatuses,
               NEW refs \in References, TransitionIntervention(i, r, next, refs)
        PROVE  Goal
    <2>1. intervention' \in [Interventions -> InterventionDocuments]
      BY <1>1, <1>4
      DEF TransitionIntervention, InterventionDocuments, References
    <2>2. /\ intervention'[i].status = next
          /\ intervention'[i].profile = intervention[i].profile
          /\ intervention'[i].approved =
               (intervention[i].approved \/ next \in SignedStatuses)
          /\ intervention'[i].decided = (intervention[i].decided \/ refs.decided)
          /\ intervention'[i].authority =
               (intervention[i].authority \/ refs.authority)
          /\ intervention'[i].case = intervention[i].case
          /\ intervention'[i].signal = intervention[i].signal
      BY <1>1, <1>4 DEF TransitionIntervention, InterventionDocuments
    <2>3. InterventionStands(intervention'[i])
      BY <1>1, <1>4, <2>2, StatusesNamed
      DEF InterventionStands, TransitionIntervention, InterventionMayBecome
    <2>4. RecordKept(intervention[i], intervention'[i])
      BY <2>2 DEF RecordKept
    <2> QED
      BY <1>1, <1>4, <2>1, <2>3, <2>4, LogIsSound DEF TransitionIntervention
  <1> QED
    BY <1>2, <1>3, <1>4 DEF InterventionNext

LEMMA ProtectionInit1 ==
  ProtectionInit => ProtectionInv
  <1> SUFFICES ASSUME ProtectionInit PROVE ProtectionInv
    OBVIOUS
  <1>1. ProtectionTypeOK
    BY EmptyIsSound
    DEF ProtectionInit, ProtectionTypeOK, Entities, AbsentProfile,
        AbsentIntervention, ProfileDocuments, InterventionDocuments,
        SoundJournal
  <1>2. \A i \in Interventions : InterventionStands(intervention[i])
    BY DEF ProtectionInit, AbsentIntervention, InterventionStands, SignedStatuses
  <1> QED
    BY <1>1, <1>2, EmptyIsSound, ProtectionAssumption
    DEF ProtectionInit, ProtectionInv, Entities

LEMMA ProtectionStep ==
  ASSUME ProtectionInv, ProtectionNext \/ UNCHANGED protectionVars
  PROVE  ProtectionInv'
  <1>1. CASE UNCHANGED protectionVars
    BY <1>1
    DEF ProtectionInv, ProtectionTypeOK, protectionVars, InterventionStands
  <1>2. ASSUME NEW p \in Profiles, ProfileNext(p)
        PROVE  ProtectionInv'
    <2>1. /\ profile' \in [Profiles -> ProfileDocuments]
          /\ profile'[p].status # "absent"
          /\ \A x \in Profiles : x # p => profile'[x] = profile[x]
          /\ intervention' = intervention /\ budget' = budget
          /\ DOMAIN journal' = Entities
          /\ \A x \in Entities : SoundJournal(journal'[x])
          /\ \A x \in Entities : x # p => journal'[x] = journal[x]
      BY <1>2, ProfileEffect
    <2>2. ProtectionTypeOK'
      BY <2>1 DEF ProtectionInv, ProtectionTypeOK, SoundJournal
    <2>3. \A q \in Profiles :
            profile'[q].status = "absent" => DOMAIN journal'[q].events = {}
      BY <2>1 DEF ProtectionInv, Entities
    <2>4. \A i \in Interventions : InterventionStands(intervention[i])'
      BY <2>1 DEF ProtectionInv, InterventionStands
    <2> QED
      BY <2>1, <2>2, <2>3, <2>4 DEF ProtectionInv
  <1>3. ASSUME NEW i \in Interventions, InterventionNext(i)
        PROVE  ProtectionInv'
    <2>1. /\ intervention' \in [Interventions -> InterventionDocuments]
          /\ InterventionStands(intervention'[i])
          /\ \A x \in Interventions :
               x # i => intervention'[x] = intervention[x]
          /\ profile' = profile /\ budget' = budget
          /\ DOMAIN journal' = Entities
          /\ \A x \in Entities : SoundJournal(journal'[x])
          /\ \A x \in Entities : x # i => journal'[x] = journal[x]
      BY <1>3, InterventionEffect
    <2>2. ProtectionTypeOK'
      BY <2>1 DEF ProtectionInv, ProtectionTypeOK, SoundJournal
    <2>3. \A q \in Profiles :
            profile'[q].status = "absent" => DOMAIN journal'[q].events = {}
      BY <2>1, ProtectionAssumption DEF ProtectionInv, Entities
    <2>4. \A x \in Interventions : InterventionStands(intervention[x])'
      BY <2>1 DEF ProtectionInv, InterventionStands
    <2> QED
      BY <2>1, <2>2, <2>3, <2>4 DEF ProtectionInv
  <1> QED
    BY <1>1, <1>2, <1>3 DEF ProtectionNext

-----------------------------------------------------------------------------
(* Submissions.                                                            *)

\* Requests are numbered.
LEMMA ReceivedIsNat ==
  ASSUME NEW s, NEW r \in Received(s)
  PROVE  r \in Nat
  BY DEF Received, SentRequests

\* A submission that went out stays out, and a concluded one concluded; only
\* one status leads to the record of a receipt.
LEMMA SentStays ==
  ASSUME NEW x \in SubmissionStatuses, NEW y \in submissionTransitions[x]
  PROVE  /\ x \in SentStatuses => y \in SentStatuses
         /\ x \in {"concluded", "archived"} => y = "archived"
         /\ y = "receipt_recorded" => x = "submitted_externally"
  BY DEF SubmissionStatuses, submissionTransitions, SentStatuses

\* The part of the history of s in a step that records new events there.
HistoryGrows(s) ==
    /\ DOMAIN history' = Submissions
    /\ \A x \in Submissions : x # s => history'[x] = history[x]
    /\ SoundJournal(history'[s])
    /\ ConclusionsFollow(history'[s])
    /\ \A id : Recorded(history[s], id) => Recorded(history'[s], id)

LEMMA LogSubmissionIsSound ==
  ASSUME SubmissionInv, NEW s \in Submissions, NEW r \in Nat, New(s, r),
         LogSubmission(s, r)
  PROVE  HistoryGrows(s)
  <1>1. SoundJournal(history[s]) /\ ConclusionsFollow(history[s])
        /\ DOMAIN history = Submissions
    BY DEF SubmissionInv
  <1>2. history' = [history EXCEPT ![s] = Append1(history[s], Event(r))]
    BY DEF LogSubmission
  <1>3. /\ SoundJournal(history'[s])
        /\ \A id : Recorded(history'[s], id)
                     <=> id = Event(r) \/ Recorded(history[s], id)
    BY <1>1, <1>2, AppendIsSound DEF New
  <1>4. ConclusionsFollow(history'[s])
    BY <1>1, <1>3 DEF ConclusionsFollow, Event
  <1> QED BY <1>1, <1>2, <1>3, <1>4 DEF HistoryGrows

\* The outcome records its response and the conclusion.
LEMMA OutcomeIsSound ==
  ASSUME SubmissionInv, NEW s \in Submissions, NEW r \in Nat, New(s, r),
         history' = [history EXCEPT ![s] = OutcomeEvents(history[s], r)]
  PROVE  HistoryGrows(s)
  <1> DEFINE j0 == history[s]
             j1 == Append1(j0, Event(r))
             j2 == Append1(j1, <<r, "concluded">>)
  <1>1. SoundJournal(j0) /\ ConclusionsFollow(j0) /\ DOMAIN history = Submissions
    BY DEF SubmissionInv
  <1>2. SoundJournal(j1)
        /\ \A id : Recorded(j1, id) <=> id = Event(r) \/ Recorded(j0, id)
    BY <1>1, AppendIsSound DEF New
  <1>3. ~Recorded(j1, <<r, "concluded">>)
    BY <1>1, <1>2 DEF ConclusionsFollow, Event, New
  <1>4. history'[s] = j2
    BY <1>1 DEF OutcomeEvents, Append2
  <1>5. SoundJournal(j2)
        /\ \A id : Recorded(j2, id) <=> id = <<r, "concluded">> \/ Recorded(j1, id)
    <2> HIDE DEF j1
    <2> QED BY <1>2, <1>3, AppendIsSound
  <1> HIDE DEF j1, j2
  <1>6. ConclusionsFollow(j2)
    <2> SUFFICES ASSUME NEW q \in Nat, Recorded(j2, <<q, "concluded">>)
                 PROVE  Recorded(j2, Event(q))
      BY DEF ConclusionsFollow
    <2>1. CASE q = r
      BY <2>1, <1>2, <1>5
    <2>2. CASE q # r
      <3>1. Recorded(j0, <<q, "concluded">>)
        BY <2>2, <1>2, <1>5 DEF Event
      <3> QED BY <3>1, <1>1, <1>2, <1>5 DEF ConclusionsFollow
    <2> QED BY <2>1, <2>2
  <1> QED BY <1>1, <1>2, <1>4, <1>5, <1>6 DEF HistoryGrows

\* Publishing an artifact records an event of its own.
LEMMA MaterializedIsSound ==
  ASSUME SubmissionInv, NEW s \in Submissions, NEW x, NEW v,
         ~Recorded(history[s], MaterializedEvent(x, v)),
         history' = [history EXCEPT ![s] = Append1(@, MaterializedEvent(x, v))]
  PROVE  HistoryGrows(s) /\ Recorded(history'[s], MaterializedEvent(x, v))
  <1>1. SoundJournal(history[s]) /\ ConclusionsFollow(history[s])
        /\ DOMAIN history = Submissions
    BY DEF SubmissionInv
  <1>2. history'[s] = Append1(history[s], MaterializedEvent(x, v))
    BY <1>1
  <1>3. /\ SoundJournal(history'[s])
        /\ \A id : Recorded(history'[s], id)
                     <=> id = MaterializedEvent(x, v) \/ Recorded(history[s], id)
    BY <1>1, <1>2, AppendIsSound
  <1>4. ConclusionsFollow(history'[s])
    BY <1>1, <1>3 DEF ConclusionsFollow, Event, MaterializedEvent
  <1> QED BY <1>1, <1>3, <1>4 DEF HistoryGrows

\* What a step of submission s does to its own documents, and that it leaves
\* those of the others and of the modules below alone.
SubmissionMoves(s) ==
    /\ submission' \in [Submissions -> SubmissionDocuments]
    /\ package' \in [Submissions -> [Versions -> PackageDocuments]]
    /\ DOMAIN response' = Submissions
    /\ response'[s] \subseteq Nat /\ IsFiniteSet(response'[s])
    /\ HistoryGrows(s)
    /\ DetailVerified(s)'
    /\ SubmissionStands(s)'
    /\ PackagesStand(s)'
    /\ \A x \in Submissions :
         x # s => /\ submission'[x] = submission[x]
                  /\ package'[x] = package[x]
                  /\ response'[x] = response[x]
    /\ UNCHANGED protectionVars

\* The numbers of a submission that its counters are compared with.
Counted(s) ==
    /\ submission[s].packageCount =
         Cardinality({v \in Versions : package[s][v] # "absent"})
    /\ submission[s].responseCount = Cardinality(response[s])
    /\ submission[s].current # 0 => package[s][submission[s].current] # "absent"

LEMMA VerifiedWhenCounted ==
  ASSUME SubmissionInv, NEW s \in Submissions, HistoryGrows(s), Counted(s)'
  PROVE  DetailVerified(s)'
  BY DEF HistoryGrows, SoundJournal, WholeJournal, Counted, DetailVerified

\* The documents of s, typed.
LEMMA SubmissionFacts ==
  ASSUME SubmissionInv, NEW s \in Submissions
  PROVE  /\ submission \in [Submissions -> SubmissionDocuments]
         /\ submission[s] \in SubmissionDocuments
         /\ package \in [Submissions -> [Versions -> PackageDocuments]]
         /\ DOMAIN response = Submissions
         /\ response[s] \subseteq Nat /\ IsFiniteSet(response[s])
         /\ Cardinality(response[s]) \in Nat
         /\ Counted(s) /\ SubmissionStands(s) /\ PackagesStand(s)
         /\ Versions \subseteq Nat /\ IsFiniteSet(Versions)
         /\ submission[s].current \in Nat
  <1>1. MaxPackages \in Nat
    BY SubmissionAssumption
  <1>2. IsFiniteSet(Versions)
    BY <1>1, FS_Interval DEF Versions
  <1>3. Cardinality(response[s]) \in Nat
    BY FS_CardinalityType DEF SubmissionInv
  <1>4. Counted(s)
    BY DEF SubmissionInv, DetailVerified, Counted
  <1>5. Versions \subseteq Nat
    BY <1>1 DEF Versions
  <1> QED
    BY <1>2, <1>3, <1>4, <1>5
    DEF SubmissionInv, SubmissionTypeOK, SubmissionDocuments

LEMMA CreateMoves ==
  ASSUME SubmissionInv, NEW s \in Submissions, NEW data \in DraftData,
         CreateSubmission(s, data)
  PROVE  SubmissionMoves(s)
  <1>1. submission' \in [Submissions -> SubmissionDocuments]
    BY SubmissionFacts, StatusesNamed
    DEF CreateSubmission, AbsentSubmission, SubmissionDocuments, DraftData
  <1>2. /\ submission'[s].status = "draft" /\ submission'[s].unit = data.unit
        /\ submission'[s].current = 0 /\ submission'[s].external = 0
        /\ submission'[s].outcome = 0 /\ submission'[s].packageCount = 0
        /\ submission'[s].responseCount = 0
    BY SubmissionFacts DEF CreateSubmission, AbsentSubmission
  <1>3. HistoryGrows(s)
    BY LogSubmissionIsSound DEF CreateSubmission
  <1>4. \A v \in Versions : package[s][v] = "absent"
    BY SubmissionFacts DEF PackagesStand, CreateSubmission
  <1>5. response[s] = {}
    BY SubmissionFacts DEF SubmissionStands, CreateSubmission
  <1>6. Counted(s)'
    <2>1. {v \in Versions : package[s][v] # "absent"} = {}
      BY <1>4
    <2> QED BY <2>1, <1>2, <1>5, FS_EmptySet DEF Counted, CreateSubmission
  <1>7. SubmissionStands(s)'
    BY <1>2 DEF SubmissionStands, DraftData, SentStatuses
  <1>8. PackagesStand(s)'
    BY <1>4 DEF PackagesStand, CreateSubmission
  <1> QED
    BY <1>1, <1>3, <1>6, <1>7, <1>8, VerifiedWhenCounted, SubmissionFacts
    DEF SubmissionMoves, CreateSubmission

LEMMA UpdateMoves ==
  ASSUME SubmissionInv, NEW s \in Submissions, NEW data \in DraftData,
         NEW r \in Received(s), UpdateSubmission(s, r, data)
  PROVE  SubmissionMoves(s)
  <1>1. submission' \in [Submissions -> SubmissionDocuments]
    <2> DEFINE reviewed == submission[s].reviewed \/ data.reviewed
               approved == submission[s].approved \/ data.approved
               d == [submission[s] EXCEPT
                       !.reviewed = reviewed, !.approved = approved,
                       !.safeguarded = data.safeguarded, !.unit = data.unit]
    <2>1. /\ reviewed \in BOOLEAN /\ approved \in BOOLEAN
          /\ data.safeguarded \in BOOLEAN /\ data.unit \in Units
      BY DEF DraftData
    <2>2. submission' = [submission EXCEPT ![s] = d]
      BY DEF UpdateSubmission
    <2>3. /\ submission \in [Submissions -> SubmissionDocuments]
          /\ submission[s] \in SubmissionDocuments
      BY SubmissionFacts
    <2>4. d \in SubmissionDocuments
      <3> HIDE DEF reviewed, approved
      <3>1. data.unit \in Units \cup {NoUnit}
        BY <2>1
      <3> QED BY <2>1, <2>3, <3>1 DEF SubmissionDocuments
    <2> HIDE DEF d
    <2> QED BY <2>2, <2>3, <2>4
  <1>2. submission'[s] = [submission[s] EXCEPT
          !.reviewed = @ \/ data.reviewed, !.approved = @ \/ data.approved,
          !.safeguarded = data.safeguarded, !.unit = data.unit]
    BY SubmissionFacts DEF UpdateSubmission
  <1>3. /\ submission'[s].status = submission[s].status
        /\ submission'[s].unit = data.unit
        /\ submission'[s].current = submission[s].current
        /\ submission'[s].external = submission[s].external
        /\ submission'[s].outcome = submission[s].outcome
        /\ submission'[s].packageCount = submission[s].packageCount
        /\ submission'[s].responseCount = submission[s].responseCount
    BY <1>2, SubmissionFacts DEF SubmissionDocuments
  <1>4. HistoryGrows(s)
    BY LogSubmissionIsSound, ReceivedIsNat DEF UpdateSubmission
  <1>5. Counted(s)'
    <2>1. UNCHANGED <<package, response>>
      BY DEF UpdateSubmission
    <2>2. Counted(s)
      BY SubmissionFacts
    <2> QED BY <1>3, <2>1, <2>2 DEF Counted
  <1>6. SubmissionStands(s)'
    <2>1. submission[s].status \in EditableStatuses
      BY DEF UpdateSubmission, Editable
    <2>2. submission[s].external = 0 /\ submission[s].outcome = 0
      BY <2>1, SubmissionFacts
      DEF SubmissionStands, EditableStatuses, SentStatuses
    <2> QED
      BY <2>1, <2>2, <1>3
      DEF SubmissionStands, EditableStatuses, DraftData
  <1>7. PackagesStand(s)'
    BY <1>3, SubmissionFacts DEF PackagesStand, UpdateSubmission
  <1> QED
    BY <1>1, <1>4, <1>5, <1>6, <1>7, VerifiedWhenCounted, SubmissionFacts
    DEF SubmissionMoves, UpdateSubmission

LEMMA TransitionMoves ==
  ASSUME SubmissionInv, NEW s \in Submissions, NEW r \in Received(s),
         NEW next \in SubmissionStatuses, TransitionSubmission(s, r, next)
  PROVE  SubmissionMoves(s)
  <1>1. submission' \in [Submissions -> SubmissionDocuments]
    <2> DEFINE d == [submission[s] EXCEPT !.status = next]
    <2>1. /\ submission \in [Submissions -> SubmissionDocuments]
          /\ submission[s] \in SubmissionDocuments
      BY SubmissionFacts
    <2>2. d \in SubmissionDocuments
      BY <2>1 DEF SubmissionDocuments
    <2>3. submission' = [submission EXCEPT ![s] = d]
      BY DEF TransitionSubmission
    <2> HIDE DEF d
    <2> QED BY <2>1, <2>2, <2>3
  <1>2. submission'[s] = [submission[s] EXCEPT !.status = next]
    BY SubmissionFacts DEF TransitionSubmission
  <1>3. /\ submission'[s].status = next
        /\ submission'[s].unit = submission[s].unit
        /\ submission'[s].current = submission[s].current
        /\ submission'[s].external = submission[s].external
        /\ submission'[s].outcome = submission[s].outcome
        /\ submission'[s].packageCount = submission[s].packageCount
        /\ submission'[s].responseCount = submission[s].responseCount
        /\ Gates(s)' = Gates(s)
    BY <1>2, SubmissionFacts DEF SubmissionDocuments, Gates
  <1>4. HistoryGrows(s)
    BY LogSubmissionIsSound, ReceivedIsNat DEF TransitionSubmission
  <1>5. Counted(s)'
    BY <1>3, SubmissionFacts DEF Counted, TransitionSubmission
  <1>6. SubmissionStands(s)'
    <2>1. /\ submission[s].status \in SubmissionStatuses
          /\ next \in submissionTransitions[submission[s].status]
          /\ next # "package_generated"
          /\ next = "approved_for_package" => Gates(s)
      BY SubmissionFacts
      DEF TransitionSubmission, SubmissionMayBecome, OperationStatuses,
          SubmissionDocuments
    <2>2. /\ submission[s].status \in SentStatuses => next \in SentStatuses
          /\ submission[s].status \in {"concluded", "archived"}
               => next = "archived"
      BY <2>1, SentStays
    <2>3. package' = package /\ response' = response
          /\ submission[s].status # "absent"
      BY DEF TransitionSubmission
    <2> QED
      BY <2>1, <2>2, <2>3, <1>3, SubmissionFacts, StatusesNamed
      DEF SubmissionStands
  <1>7. PackagesStand(s)'
    BY <1>3, SubmissionFacts, StatusesNamed
    DEF PackagesStand, TransitionSubmission
  <1> QED
    BY <1>1, <1>4, <1>5, <1>6, <1>7, VerifiedWhenCounted, SubmissionFacts
    DEF SubmissionMoves, TransitionSubmission

\* A package freezes a profile that exists, and an active one where the type
\* of the submission asks for it.
LEMMA FrozenFits ==
  ASSUME ProtectionInv, NEW s \in Submissions, SourcesFit(s)
  PROVE  /\ Frozen(s) \in PackageDocuments /\ Frozen(s) # "absent"
         /\ SubmissionType[s] = "fsmh_protection_application"
              => Frozen(s) = "active"
  <1>1. CASE SourceProfile[s] = NoProfile
    BY <1>1 DEF Frozen, PackageDocuments, SourcesFit, NoSource
  <1>2. CASE SourceProfile[s] # NoProfile
    <2>1. SourceProfile[s] \in Profiles
      BY <1>2, SubmissionAssumption
    <2>2. profile[SourceProfile[s]].status \in ProfileStatuses \cup {"absent"}
      BY <2>1 DEF ProtectionInv, ProtectionTypeOK, ProfileDocuments
    <2> QED
      BY <1>2, <2>2 DEF Frozen, PackageDocuments, SourcesFit
  <1> QED BY <1>1, <1>2

LEMMA GenerateMoves ==
  ASSUME ProtectionInv, SubmissionInv, NEW s \in Submissions,
         NEW r \in Received(s), GeneratePackage(s, r)
  PROVE  SubmissionMoves(s)
  <1> DEFINE v == submission[s].current + 1
             d == submission'[s]
  <1>1. /\ v \in Versions /\ v \in Nat /\ v # 0
        /\ package[s][v] = "absent"
        /\ Gates(s)
        /\ submission[s].status = "approved_for_package"
    BY SubmissionFacts DEF GeneratePackage
  <1>2. /\ Frozen(s) \in PackageDocuments /\ Frozen(s) # "absent"
        /\ SubmissionType[s] = "fsmh_protection_application"
             => Frozen(s) = "active"
    BY FrozenFits DEF GeneratePackage
  <1>3. submission' \in [Submissions -> SubmissionDocuments]
    BY <1>1, SubmissionFacts, StatusesNamed
    DEF GeneratePackage, SubmissionDocuments
  <1>4. /\ d.status = "package_generated" /\ d.current = v
        /\ d.packageCount = submission[s].packageCount + 1
        /\ d.unit = submission[s].unit /\ d.external = submission[s].external
        /\ d.outcome = submission[s].outcome
        /\ d.responseCount = submission[s].responseCount
        /\ Gates(s)'
    BY <1>1, SubmissionFacts DEF GeneratePackage, SubmissionDocuments, Gates
  <1>5. /\ package' \in [Submissions -> [Versions -> PackageDocuments]]
        /\ package'[s][v] = Frozen(s)
        /\ \A w \in Versions : w # v => package'[s][w] = package[s][w]
        /\ \A x \in Submissions : x # s => package'[x] = package[x]
    BY <1>1, <1>2, SubmissionFacts DEF GeneratePackage
  <1>6. HistoryGrows(s)
    BY LogSubmissionIsSound, ReceivedIsNat DEF GeneratePackage
  <1>7. Counted(s)'
    <2> DEFINE old == {w \in Versions : package[s][w] # "absent"}
               new == {w \in Versions : package'[s][w] # "absent"}
    <2>1. new = old \cup {v} /\ v \notin old
      BY <1>1, <1>2, <1>5
    <2>2. IsFiniteSet(old)
      BY SubmissionFacts, FS_Subset
    <2>3. Cardinality(new) = Cardinality(old) + 1
      BY <2>1, <2>2, FS_AddElement
    <2> HIDE DEF old, new
    <2>4. submission[s].packageCount = Cardinality(old)
          /\ submission[s].responseCount = Cardinality(response[s])
      BY SubmissionFacts DEF Counted, old
    <2> QED
      BY <2>3, <2>4, <1>1, <1>2, <1>4, <1>5
      DEF Counted, GeneratePackage, new
  <1>8. submission[s].external = 0 /\ submission[s].outcome = 0
    BY <1>1, SubmissionFacts DEF SubmissionStands, SentStatuses
  <1>9. SubmissionStands(s)'
    BY <1>1, <1>4, <1>8, SubmissionFacts DEF SubmissionStands, GeneratePackage
  <1>10. PackagesStand(s)'
    BY <1>2, <1>4, <1>5, SubmissionFacts DEF PackagesStand
  <1> QED
    BY <1>3, <1>5, <1>6, <1>7, <1>9, <1>10, VerifiedWhenCounted,
       SubmissionFacts
    DEF SubmissionMoves, GeneratePackage

LEMMA ExternalMoves ==
  ASSUME SubmissionInv, NEW s \in Submissions, NEW r \in Received(s),
         NEW v \in NamedPackages, RecordExternalSubmission(s, r, v)
  PROVE  SubmissionMoves(s)
  <1> DEFINE d == submission'[s]
  <1>1. /\ v \in Versions /\ v = submission[s].current
        /\ package[s][v] # "absent"
        /\ submission[s].status = "package_generated"
    BY DEF RecordExternalSubmission, IsCurrent, NamedPackages
  <1>2. Gates(s) /\ submission[s].outcome = 0
    BY <1>1, SubmissionFacts DEF SubmissionStands
  <1>3. submission' \in [Submissions -> SubmissionDocuments]
    <2>1. r \in Nat /\ "submitted_externally" \in SubmissionStatuses
      BY ReceivedIsNat, StatusesNamed
    <2> DEFINE n == [submission[s] EXCEPT !.status = "submitted_externally",
                                          !.external = v, !.sentBy = r]
    <2>2. submission' = [submission EXCEPT ![s] = n]
      BY DEF RecordExternalSubmission
    <2>3. n \in SubmissionDocuments
      <3>1. submission[s] \in SubmissionDocuments /\ v \in {0} \cup Versions
        BY <1>1, SubmissionFacts
      <3> QED BY <2>1, <3>1 DEF SubmissionDocuments
    <2> HIDE DEF n
    <2> QED BY <2>2, <2>3, SubmissionFacts
  <1>4. /\ d.status = "submitted_externally"
        /\ d.external = v /\ d.current = v
        /\ d.unit = submission[s].unit /\ d.outcome = submission[s].outcome
        /\ d.packageCount = submission[s].packageCount
        /\ d.responseCount = submission[s].responseCount
        /\ Gates(s)'
    BY <1>1, <1>2, SubmissionFacts
    DEF RecordExternalSubmission, SubmissionDocuments, Gates
  <1>5. HistoryGrows(s)
    BY LogSubmissionIsSound, ReceivedIsNat DEF RecordExternalSubmission
  <1>6. Counted(s)'
    BY <1>1, <1>4, SubmissionFacts, ZenonT(30)
    DEF Counted, RecordExternalSubmission
  <1>7. SubmissionStands(s)'
    BY <1>1, <1>2, <1>4, SubmissionFacts
    DEF SubmissionStands, SentStatuses, RecordExternalSubmission
  <1>8. PackagesStand(s)'
    BY <1>4, SubmissionFacts DEF PackagesStand, RecordExternalSubmission
  <1> QED
    BY <1>3, <1>5, <1>6, <1>7, <1>8, VerifiedWhenCounted, SubmissionFacts
    DEF SubmissionMoves, RecordExternalSubmission

\* A response is counted with the document that records it.
LEMMA ResponseCounted ==
  ASSUME SubmissionInv, NEW s \in Submissions, NEW r \in Nat,
         r \notin response[s],
         response' = [response EXCEPT ![s] = @ \cup {r}]
  PROVE  /\ response'[s] = response[s] \cup {r}
         /\ DOMAIN response' = Submissions
         /\ response'[s] \subseteq Nat /\ IsFiniteSet(response'[s])
         /\ Cardinality(response'[s]) = submission[s].responseCount + 1
         /\ \A x \in Submissions : x # s => response'[x] = response[x]
  <1>1. response'[s] = response[s] \cup {r}
    BY SubmissionFacts
  <1>2. /\ IsFiniteSet(response'[s])
        /\ Cardinality(response'[s]) = Cardinality(response[s]) + 1
    BY <1>1, SubmissionFacts, FS_AddElement
  <1>3. Cardinality(response[s]) = submission[s].responseCount
    BY SubmissionFacts DEF Counted
  <1> QED BY <1>1, <1>2, <1>3, SubmissionFacts

\* Responses move a submission that went out to a status that went out.
LEMMA RespondMoves ==
  ASSUME SubmissionInv, NEW s \in Submissions, NEW r \in Received(s),
         NEW next \in SubmissionStatuses \cap SentStatuses,
         submission[s].status \in CONCLUDABLE_OUTCOME_STATUSES,
         Respond(s, r, next)
  PROVE  SubmissionMoves(s)
  <1> DEFINE d == submission'[s]
  <1>1. /\ response'[s] = response[s] \cup {r}
        /\ DOMAIN response' = Submissions
        /\ response'[s] \subseteq Nat /\ IsFiniteSet(response'[s])
        /\ Cardinality(response'[s]) = submission[s].responseCount + 1
        /\ \A x \in Submissions : x # s => response'[x] = response[x]
    BY ReceivedIsNat, ResponseCounted DEF Respond
  <1>2. submission' \in [Submissions -> SubmissionDocuments]
    BY SubmissionFacts DEF Respond, SubmissionDocuments
  <1>3. /\ d.status = next /\ d.external = submission[s].external
        /\ d.current = submission[s].current
        /\ d.unit = submission[s].unit /\ d.outcome = submission[s].outcome
        /\ d.packageCount = submission[s].packageCount
        /\ d.responseCount = submission[s].responseCount + 1
        /\ Gates(s)' = Gates(s)
    BY SubmissionFacts DEF Respond, SubmissionDocuments, Gates
  <1>4. HistoryGrows(s)
    BY LogSubmissionIsSound, ReceivedIsNat DEF Respond
  <1>5. Counted(s)'
    <2>1. package' = package
      BY DEF Respond
    <2>2. Counted(s)
      BY SubmissionFacts
    <2> QED BY <1>1, <1>3, <2>1, <2>2 DEF Counted
  <1>6. /\ submission[s].outcome = 0 /\ submission[s].status # "absent"
        /\ next \notin {"absent", "approved_for_package", "package_generated"}
    BY SubmissionFacts
    DEF SubmissionStands, CONCLUDABLE_OUTCOME_STATUSES, SentStatuses
  <1>7. SubmissionStands(s)'
    BY <1>3, <1>6, SubmissionFacts DEF SubmissionStands, Respond
  <1>8. PackagesStand(s)'
    BY <1>3, <1>6, SubmissionFacts DEF PackagesStand, Respond
  <1> QED
    BY <1>1, <1>2, <1>4, <1>5, <1>7, <1>8, VerifiedWhenCounted,
       SubmissionFacts
    DEF SubmissionMoves, Respond

LEMMA OutcomeMoves ==
  ASSUME SubmissionInv, NEW s \in Submissions, NEW r \in Received(s),
         RecordOutcome(s, r)
  PROVE  SubmissionMoves(s)
  <1> DEFINE d == submission'[s]
             count == submission[s].responseCount + 1
             n == [submission[s] EXCEPT !.status = "concluded", !.outcome = r,
                                        !.responseCount = count]
  <1>1. /\ response'[s] = response[s] \cup {r}
        /\ DOMAIN response' = Submissions
        /\ response'[s] \subseteq Nat /\ IsFiniteSet(response'[s])
        /\ Cardinality(response'[s]) = submission[s].responseCount + 1
        /\ \A x \in Submissions : x # s => response'[x] = response[x]
    BY ReceivedIsNat, ResponseCounted DEF RecordOutcome
  <1>2. submission' \in [Submissions -> SubmissionDocuments] /\ d = n
    <2>1. submission' = [submission EXCEPT ![s] = n]
      BY DEF RecordOutcome
    <2>2. n \in SubmissionDocuments
      <3>1. r \in Nat /\ "concluded" \in SubmissionStatuses
            /\ submission[s] \in SubmissionDocuments
        BY ReceivedIsNat, StatusesNamed, SubmissionFacts
      <3>2. count \in Nat
        BY <3>1 DEF SubmissionDocuments
      <3> HIDE DEF count
      <3> QED BY <3>1, <3>2 DEF SubmissionDocuments
    <2> HIDE DEF n
    <2> QED BY <2>1, <2>2, SubmissionFacts
  <1>3. /\ d.status = "concluded" /\ d.external = submission[s].external
        /\ d.current = submission[s].current
        /\ d.unit = submission[s].unit /\ d.outcome = r
        /\ d.packageCount = submission[s].packageCount
        /\ d.responseCount = submission[s].responseCount + 1
        /\ Gates(s)' = Gates(s)
    BY <1>2, SubmissionFacts DEF SubmissionDocuments, Gates
  <1>4. HistoryGrows(s)
    BY OutcomeIsSound, ReceivedIsNat DEF RecordOutcome
  <1>5. package' = package
    BY DEF RecordOutcome
  <1>6. Counted(s)'
    <2>1. Counted(s)
      BY SubmissionFacts
    <2> QED BY <1>1, <1>3, <1>5, <2>1 DEF Counted
  <1>7. submission[s].external # 0 /\ submission[s].status # "absent"
    BY DEF RecordOutcome, CONCLUDABLE_OUTCOME_STATUSES
  <1>8. SubmissionStands(s)'
    BY <1>1, <1>3, <1>5, <1>7, SubmissionFacts
    DEF SubmissionStands, SentStatuses
  <1>9. PackagesStand(s)'
    BY <1>3, <1>5, <1>7, SubmissionFacts DEF PackagesStand
  <1> QED
    BY <1>1, <1>2, <1>4, <1>5, <1>6, <1>8, <1>9, VerifiedWhenCounted,
       SubmissionFacts
    DEF SubmissionMoves, RecordOutcome

LEMMA EachMoves ==
  ASSUME ProtectionInv, SubmissionInv, NEW s \in Submissions,
         SubmissionNext(s)
  PROVE  SubmissionMoves(s)
  <1>1. ASSUME NEW r \in Received(s), RecordReceipt(s, r)
        PROVE  SubmissionMoves(s)
    <2>1. submission[s].status = "submitted_externally"
      BY <1>1, SentStays, SubmissionFacts
      DEF RecordReceipt, SubmissionDocuments
    <2> QED
      BY <1>1, <2>1, RespondMoves, StatusesNamed
      DEF RecordReceipt, CONCLUDABLE_OUTCOME_STATUSES, SentStatuses
  <1>2. ASSUME NEW r \in Received(s), NEW t \in ResponseTypes,
               AppendResponse(s, r, t)
        PROVE  SubmissionMoves(s)
    <2>1. StatusAfter(s, t) \in SubmissionStatuses \cap SentStatuses
      BY <1>2, StatusesNamed, SubmissionFacts
      DEF AppendResponse, StatusAfter, SubmissionDocuments, SentStatuses,
          CONCLUDABLE_OUTCOME_STATUSES
    <2> QED
      BY <1>2, <2>1, RespondMoves DEF AppendResponse
  <1> QED
    BY <1>1, <1>2, CreateMoves, UpdateMoves, TransitionMoves, GenerateMoves,
       ExternalMoves, OutcomeMoves
    DEF SubmissionNext

LEMMA SubmissionInit1 ==
  SubmissionInit => SubmissionInv
  <1> SUFFICES ASSUME SubmissionInit PROVE SubmissionInv
    OBVIOUS
  <1>1. SubmissionTypeOK
    BY EmptyIsSound
    DEF SubmissionInit, SubmissionTypeOK, AbsentSubmission,
        SubmissionDocuments, PackageDocuments, SoundJournal
  <1>2. ASSUME NEW s \in Submissions
        PROVE  /\ IsFiniteSet(response[s]) /\ SoundJournal(history[s])
               /\ ConclusionsFollow(history[s])
               /\ DetailVerified(s) /\ SubmissionStands(s) /\ PackagesStand(s)
    <2>1. /\ history[s] = EmptyJournal /\ response[s] = {}
          /\ submission[s] = AbsentSubmission
          /\ \A v \in Versions : package[s][v] = "absent"
      BY DEF SubmissionInit
    <2>2. {v \in Versions : package[s][v] # "absent"} = {}
      BY <2>1
    <2>3. DetailVerified(s)
      BY <2>1, <2>2, EmptyIsSound, FS_EmptySet, SMTT(30)
      DEF DetailVerified, AbsentSubmission, SoundJournal, WholeJournal
    <2>4. SubmissionStands(s)
      BY <2>1 DEF SubmissionStands, AbsentSubmission
    <2> QED
      BY <2>1, <2>3, <2>4, EmptyIsSound, FS_EmptySet
      DEF ConclusionsFollow, PackagesStand, Recorded
  <1> QED
    BY <1>1, <1>2 DEF SubmissionInv, SubmissionInit

\* The documents of one submission decide what holds of it.
SubmissionSame(x) ==
    /\ submission'[x] = submission[x]
    /\ package'[x] = package[x]
    /\ response'[x] = response[x]

LEMMA SameStands ==
  ASSUME SubmissionInv, NEW x \in Submissions, SubmissionSame(x),
         SoundJournal(history'[x])
  PROVE  /\ IsFiniteSet(response'[x]) /\ response'[x] \subseteq Nat
         /\ DetailVerified(x)' /\ SubmissionStands(x)' /\ PackagesStand(x)'
  <1>1. Counted(x)'
    BY SubmissionFacts DEF SubmissionSame, Counted
  <1>2. DetailVerified(x)'
    BY <1>1 DEF Counted, DetailVerified, SoundJournal, WholeJournal
  <1> QED
    BY <1>2, SubmissionFacts
    DEF SubmissionSame, SubmissionStands, PackagesStand, Gates

\* A step that records new events in the history of s, and moves at most s.
LEMMA SubmissionStep ==
  ASSUME SubmissionInv, NEW s \in Submissions, HistoryGrows(s),
         \/ SubmissionMoves(s)
         \/ UNCHANGED <<submission, package, response>>
  PROVE  SubmissionInv'
  <1>1. /\ submission' \in [Submissions -> SubmissionDocuments]
        /\ package' \in [Submissions -> [Versions -> PackageDocuments]]
        /\ DOMAIN response' = Submissions
        /\ DOMAIN history' = Submissions
        /\ \A x \in Submissions : x # s => SubmissionSame(x)
    BY SubmissionFacts DEF SubmissionMoves, HistoryGrows, SubmissionSame
  <1>2. ASSUME NEW x \in Submissions
        PROVE  /\ IsFiniteSet(response'[x]) /\ response'[x] \subseteq Nat
               /\ SoundJournal(history'[x]) /\ ConclusionsFollow(history'[x])
               /\ DetailVerified(x)' /\ SubmissionStands(x)'
               /\ PackagesStand(x)'
    <2>1. SoundJournal(history'[x]) /\ ConclusionsFollow(history'[x])
      BY DEF HistoryGrows, SubmissionInv
    <2>2. CASE x # s
      BY <2>1, <2>2, <1>1, SameStands
    <2>3. CASE x = s /\ SubmissionMoves(s)
      BY <2>1, <2>3 DEF SubmissionMoves
    <2>4. CASE x = s /\ UNCHANGED <<submission, package, response>>
      <3>1. SubmissionSame(x)
        BY <2>4 DEF SubmissionSame
      <3> QED BY <2>1, <3>1, SameStands
    <2> QED BY <2>2, <2>3, <2>4
  <1>3. SubmissionTypeOK'
    BY <1>1, <1>2 DEF SubmissionTypeOK, SoundJournal
  <1> QED
    BY <1>1, <1>2, <1>3 DEF SubmissionInv

LEMMA SubmissionStutter ==
  ASSUME SubmissionInv, UNCHANGED submissionVars
  PROVE  SubmissionInv'
  <1>1. \A x \in Submissions : SubmissionSame(x) /\ SoundJournal(history'[x])
    BY DEF submissionVars, SubmissionSame, SubmissionInv
  <1>2. \A x \in Submissions :
          /\ IsFiniteSet(response'[x]) /\ response'[x] \subseteq Nat
          /\ DetailVerified(x)' /\ SubmissionStands(x)' /\ PackagesStand(x)'
    BY <1>1, SameStands
  <1> QED
    BY <1>2 DEF SubmissionInv, SubmissionTypeOK, submissionVars

-----------------------------------------------------------------------------
(* Artifacts.                                                              *)

\* Where a call works, and what it rendered.
LEMMA CallFacts ==
  ASSUME ArtifactInv, NEW c \in Calls
  PROVE  /\ work[c].sub \in Submissions /\ work[c].version \in Versions
         /\ ArtifactOf(c) \in ArtifactDocuments
         /\ artifact \in [Submissions -> [Versions -> ArtifactDocuments]]
         /\ object \in [Submissions -> [Versions -> [Kinds -> Units \cup {Missing}]]]
         /\ work \in [Calls -> WorkStates]
         /\ work[c] \in WorkStates
         /\ Rendered(c) = work[c].unit
         /\ {"pdf", "json"} = Kinds
  BY DEF ArtifactInv, ArtifactTypeOK, WorkStates, ArtifactOf, Rendered,
         RenderedPdf, RenderedManifest, Kinds

\* Objects are created once and never overwritten.
ObjectsStay ==
    \A s \in Submissions, v \in Versions, k \in Kinds :
      object[s][v][k] # Missing => object'[s][v][k] = object[s][v][k]

\* A manifest has its PDF, wherever it is.
ManifestsHavePdf ==
    \A s \in Submissions, v \in Versions :
      object[s][v]["json"] # Missing =>
        object[s][v]["pdf"] = object[s][v]["json"]

ReadyIsStored(s, v) ==
    artifact[s][v].status = "ready" =>
      /\ object[s][v]["pdf"] # Missing /\ object[s][v]["json"] # Missing
      /\ Recorded(history[s], MaterializedEvent(artifact[s][v].request, v))

LEMMA StoredParts ==
  ReadyArtifactStored <=>
    /\ ManifestsHavePdf
    /\ \A s \in Submissions, v \in Versions : ReadyIsStored(s, v)
  BY DEF ReadyArtifactStored, ManifestsHavePdf, ReadyIsStored, Downloadable,
         Kinds

HistoryStays ==
    \A s \in Submissions : \A id :
      Recorded(history[s], id) => Recorded(history'[s], id)

\* Creating the missing object of a call, rendered by it.
LEMMA StoringStands ==
  ASSUME ArtifactInv, NEW c \in Calls, work[c].pc \in Kinds,
         ObjectOf(c) = Missing, SetObject(c)
  PROVE  /\ object' \in
              [Submissions -> [Versions -> [Kinds -> Units \cup {Missing}]]]
         /\ ObjectsStay /\ ManifestsHavePdf'
         /\ object'[work[c].sub][work[c].version][work[c].pc] = work[c].unit
  <1> DEFINE s == work[c].sub
             v == work[c].version
             k == work[c].pc
  <1>1. /\ s \in Submissions /\ v \in Versions /\ k \in Kinds
        /\ work[c].unit \in Units
        /\ k = "json" => object[s][v]["pdf"] = work[c].unit
    BY CallFacts DEF ArtifactInv, CallStands, Kinds
  <1>2. object' = [object EXCEPT ![s][v][k] = work[c].unit]
    BY CallFacts DEF SetObject
  <1>3. object' \in [Submissions -> [Versions -> [Kinds -> Units \cup {Missing}]]]
    BY <1>1, <1>2, CallFacts
  <1>4. /\ object'[s][v][k] = work[c].unit
        /\ \A x \in Submissions, y \in Versions, z \in Kinds :
             x # s \/ y # v \/ z # k => object'[x][y][z] = object[x][y][z]
    BY <1>1, <1>2, CallFacts
  <1>5. object[s][v][k] = Missing
    BY DEF ObjectOf
  <1>6. ObjectsStay
    BY <1>4, <1>5 DEF ObjectsStay
  <1>7. ManifestsHavePdf'
    <2> SUFFICES ASSUME NEW x \in Submissions, NEW y \in Versions,
                        object'[x][y]["json"] # Missing
                 PROVE  object'[x][y]["pdf"] = object'[x][y]["json"]
      BY DEF ManifestsHavePdf
    <2>1. object[x][y]["json"] # Missing
            => object[x][y]["pdf"] = object[x][y]["json"]
      BY StoredParts DEF ArtifactInv, ManifestsHavePdf
    <2>2. "pdf" \in Kinds /\ "json" \in Kinds
      BY DEF Kinds
    <2> HIDE DEF s, v, k
    <2>3. CASE x = s /\ y = v /\ k = "json"
      <3>1. object'[x][y]["json"] = work[c].unit
        BY <2>3, <1>4
      <3>2. object'[x][y]["pdf"] = object[x][y]["pdf"]
        BY <2>2, <2>3, <1>4
      <3>3. object[x][y]["pdf"] = work[c].unit
        BY <2>3, <1>1
      <3> QED BY <3>1, <3>2, <3>3
    <2>4. CASE x = s /\ y = v /\ k = "pdf"
      <3>1. object'[x][y]["json"] = object[x][y]["json"]
        BY <2>2, <2>4, <1>4
      <3>2. object[x][y]["pdf"] = Missing
        BY <2>4, <1>5
      <3> QED BY <2>1, <3>1, <3>2
    <2>5. CASE ~(x = s /\ y = v)
      <3>1. /\ object'[x][y]["json"] = object[x][y]["json"]
            /\ object'[x][y]["pdf"] = object[x][y]["pdf"]
        BY <2>2, <2>5, <1>4
      <3> QED BY <2>1, <3>1
    <2> QED BY <2>3, <2>4, <2>5, <1>1 DEF Kinds
  <1> QED BY <1>3, <1>4, <1>6, <1>7

\* What call c keeps and leaves alone in a step.  The artifacts that are
\* ready after it were so before, or c has just published one.
ArtifactMoves(c) ==
    /\ artifact' \in [Submissions -> [Versions -> ArtifactDocuments]]
    /\ object' \in [Submissions -> [Versions -> [Kinds -> Units \cup {Missing}]]]
    /\ work' \in [Calls -> WorkStates]
    /\ faults' \in Nat
    /\ ObjectsStay /\ ManifestsHavePdf' /\ HistoryStays
    /\ \A d \in Calls : d # c => work'[d] = work[d]
    /\ CallStands(c)'
    /\ \A s \in Submissions, v \in Versions :
         \/ artifact'[s][v].status # "ready"
         \/ /\ artifact[s][v].status = "ready"
            /\ artifact'[s][v].request = artifact[s][v].request
         \/ ReadyIsStored(s, v)'

LEMMA ArtifactStep ==
  ASSUME ArtifactInv, NEW c \in Calls, ArtifactMoves(c)
  PROVE  ArtifactInv'
  <1>1. ArtifactTypeOK'
    BY DEF ArtifactMoves, ArtifactTypeOK
  <1>2. ASSUME NEW d \in Calls
        PROVE  CallStands(d)'
    <2>1. CASE d = c
      BY <2>1 DEF ArtifactMoves
    <2>2. CASE d # c
      <3>1. work'[d] = work[d] /\ CallStands(d)
        BY <2>2 DEF ArtifactMoves, ArtifactInv
      <3>2. /\ work[d].sub \in Submissions /\ work[d].version \in Versions
            /\ "pdf" \in Kinds /\ "json" \in Kinds
        BY CallFacts DEF Kinds
      <3> DEFINE o == object[work[d].sub][work[d].version]
                 n == object'[work[d].sub][work[d].version]
      <3>3. /\ o["pdf"] \in Units => n["pdf"] = o["pdf"]
            /\ o["json"] \in Units => n["json"] = o["json"]
        BY <3>2, ArtifactAssumption DEF ArtifactMoves, ObjectsStay
      <3>4. /\ work[d].pc \in {"pdf", "json", "finalize"}
                 => work[d].unit \in Units
            /\ work[d].pc \in {"json", "finalize"} => n["pdf"] = work[d].unit
            /\ work[d].pc = "finalize" => n["json"] = work[d].unit
        BY <3>1, <3>3 DEF CallStands
      <3> QED BY <3>1, <3>4 DEF CallStands
    <2> QED BY <2>1, <2>2
  <1>3. ASSUME NEW s \in Submissions, NEW v \in Versions
        PROVE  ReadyIsStored(s, v)'
    <2>1. CASE /\ artifact[s][v].status = "ready"
               /\ artifact'[s][v].request = artifact[s][v].request
      <3>1. ReadyIsStored(s, v)
        BY StoredParts DEF ArtifactInv
      <3>2. ObjectsStay /\ HistoryStays
        BY DEF ArtifactMoves
      <3> QED
        BY <2>1, <3>1, <3>2
        DEF ReadyIsStored, ObjectsStay, HistoryStays, Kinds
    <2> QED BY <2>1 DEF ArtifactMoves, ReadyIsStored
  <1>4. ReadyArtifactStored'
    <2>1. ManifestsHavePdf'
      BY DEF ArtifactMoves
    <2> QED
      BY <1>3, <2>1
      DEF ReadyArtifactStored, ManifestsHavePdf, ReadyIsStored, Downloadable,
          Kinds
  <1> QED BY <1>1, <1>2, <1>4 DEF ArtifactInv

\* When nothing is written to storage or to the histories, they stay.
LEMMA StorageStays ==
  ASSUME ArtifactInv, UNCHANGED <<object, history>>
  PROVE  /\ ObjectsStay /\ ManifestsHavePdf' /\ HistoryStays
         /\ object' \in
              [Submissions -> [Versions -> [Kinds -> Units \cup {Missing}]]]
  BY StoredParts
  DEF ObjectsStay, ManifestsHavePdf, HistoryStays, ArtifactInv, ArtifactTypeOK

\* Nor do ready artifacts go or come when their documents do not change.
LEMMA ArtifactsStay ==
  ASSUME ArtifactInv, UNCHANGED artifact
  PROVE  /\ artifact' \in [Submissions -> [Versions -> ArtifactDocuments]]
         /\ \A s \in Submissions, v \in Versions :
              \/ artifact'[s][v].status # "ready"
              \/ /\ artifact[s][v].status = "ready"
                 /\ artifact'[s][v].request = artifact[s][v].request
  BY DEF ArtifactInv, ArtifactTypeOK

LEMMA IdleStands ==
  /\ IdleWork \in WorkStates
  /\ IdleWork.pc = "idle"
  BY SubmissionAssumption, ArtifactAssumption
  DEF IdleWork, WorkStates, Pcs, Versions

\* A call that ends, or waits to record its failure, claims nothing.
LEMMA RestingStands ==
  ASSUME NEW c \in Calls,
         work'[c].pc \in {"idle", "unavailable", "mismatch", "answered"}
  PROVE  CallStands(c)'
  BY DEF CallStands

LEMMA MovesWork ==
  ASSUME ArtifactInv, NEW c \in Calls, NEW pc \in Pcs, Moves(c, pc)
  PROVE  /\ work' \in [Calls -> WorkStates]
         /\ work'[c].pc = pc
         /\ work'[c].sub = work[c].sub /\ work'[c].version = work[c].version
         /\ work'[c].request = work[c].request /\ work'[c].unit = work[c].unit
         /\ \A d \in Calls : d # c => work'[d] = work[d]
  BY CallFacts DEF Moves, WorkStates

LEMMA ThrowsWork ==
  ASSUME ArtifactInv, NEW c \in Calls, Throws(c)
  PROVE  /\ work' \in [Calls -> WorkStates]
         /\ work'[c].pc = "idle"
         /\ \A d \in Calls : d # c => work'[d] = work[d]
  BY CallFacts, IdleStands DEF Throws

\* The steps that only move the call, without a claim about what it stored.
LEMMA RestMoves ==
  ASSUME ArtifactInv, NEW c \in Calls,
         UNCHANGED <<artifact, object, history>>, faults' \in Nat,
         work' \in [Calls -> WorkStates],
         \A d \in Calls : d # c => work'[d] = work[d],
         CallStands(c)'
  PROVE  ArtifactMoves(c)
  BY StorageStays, ArtifactsStay DEF ArtifactMoves

\* No call changes a submission; only Publish writes to its history.
LEMMA HistoryKept ==
  ASSUME UNCHANGED submissionVars
  PROVE  history' = history /\ submission' = submission /\ HistoryStays
  BY DEF submissionVars, HistoryStays

LEMMA ReserveMoves ==
  ASSUME SubmissionInv, ArtifactInv, NEW c \in Calls, NEW s \in Submissions,
         NEW v \in Versions, NEW x \in Artifacts, Reserve(c, s, v, x)
  PROVE  ArtifactMoves(c)
  <1> DEFINE a == [status |-> "materializing", request |-> x, leased |-> TRUE]
             w == [pc |-> "pdf", sub |-> s, version |-> v, request |-> x,
                   unit |-> submission[s].unit]
  <1>1. submission[s].unit \in Units
    BY SubmissionFacts DEF Reserve, PackagesStand, SubmissionStands
  <1>2. a \in ArtifactDocuments /\ a.status # "ready"
    BY DEF ArtifactDocuments
  <1>3. w \in WorkStates /\ w.pc = "pdf" /\ w.unit \in Units
    BY <1>1 DEF WorkStates, Pcs
  <1>4. /\ artifact' = [artifact EXCEPT ![s][v] = a]
        /\ work' = [work EXCEPT ![c] = w]
        /\ object' = object /\ history' = history /\ faults' = faults
    BY HistoryKept DEF Reserve
  <1> HIDE DEF a, w
  <1>5. /\ artifact' \in [Submissions -> [Versions -> ArtifactDocuments]]
        /\ artifact'[s][v].status # "ready"
        /\ \A y \in Submissions, z \in Versions :
             y # s \/ z # v => artifact'[y][z] = artifact[y][z]
    BY <1>2, <1>4 DEF ArtifactInv, ArtifactTypeOK
  <1>6. /\ work' \in [Calls -> WorkStates]
        /\ work'[c] = w
        /\ \A d \in Calls : d # c => work'[d] = work[d]
    BY <1>3, <1>4, CallFacts
  <1>7. CallStands(c)'
    BY <1>3, <1>6 DEF CallStands
  <1>8. faults' \in Nat
    BY <1>4 DEF ArtifactInv, ArtifactTypeOK
  <1> QED
    BY <1>4, <1>5, <1>6, <1>7, <1>8, StorageStays DEF ArtifactMoves

LEMMA StoreMoves ==
  ASSUME ArtifactInv, NEW c \in Calls, StoreObject(c)
  PROVE  ArtifactMoves(c)
  <1> DEFINE s == work[c].sub
             v == work[c].version
             k == work[c].pc
             pc == IF k = "pdf" THEN "json" ELSE "finalize"
  <1>1. /\ k \in Kinds /\ Verifies(c)
        /\ artifact' = artifact /\ faults' = faults /\ history' = history
        /\ Moves(c, pc) /\ pc \in Pcs
    BY HistoryKept DEF StoreObject, Pcs
  <1>2. /\ work' \in [Calls -> WorkStates]
        /\ work'[c].pc = pc /\ work'[c].sub = s /\ work'[c].version = v
        /\ work'[c].unit = work[c].unit
        /\ \A d \in Calls : d # c => work'[d] = work[d]
    BY <1>1, MovesWork
  <1>3. /\ s \in Submissions /\ v \in Versions
        /\ work[c].unit \in Units
        /\ k = "json" => object[s][v]["pdf"] = work[c].unit
    BY <1>1, CallFacts DEF ArtifactInv, CallStands, Kinds
  <1>4. /\ object' \in
             [Submissions -> [Versions -> [Kinds -> Units \cup {Missing}]]]
        /\ ObjectsStay /\ ManifestsHavePdf'
        /\ object'[s][v][k] = work[c].unit
    <2>1. CASE ObjectOf(c) = Missing
      BY <1>1, <2>1, StoringStands DEF StoreObject
    <2>2. CASE ObjectOf(c) # Missing
      <3>1. object' = object
        BY <2>2 DEF StoreObject
      <3>2. object[s][v][k] = work[c].unit
        BY <1>1, <2>2, CallFacts DEF Verifies, ObjectOf
      <3> QED BY <3>1, <3>2, <1>1, StorageStays
    <2> QED BY <2>1, <2>2
  <1>5. k = "json" => object'[s][v]["pdf"] = work[c].unit
    BY <1>3, <1>4, ArtifactAssumption DEF ObjectsStay, Kinds
  <1>6. CallStands(c)'
    BY <1>1, <1>2, <1>3, <1>4, <1>5 DEF CallStands, Kinds
  <1>7. faults' \in Nat /\ HistoryStays
    BY <1>1 DEF ArtifactInv, ArtifactTypeOK, HistoryStays
  <1> QED
    BY <1>1, <1>2, <1>4, <1>6, <1>7, ArtifactsStay DEF ArtifactMoves

LEMMA StorageFailsMoves ==
  ASSUME ArtifactInv, NEW c \in Calls, StorageFails(c)
  PROVE  ArtifactMoves(c)
  <1>1. /\ work[c].pc \in Kinds /\ Moves(c, "unavailable")
        /\ "unavailable" \in Pcs
        /\ artifact' = artifact /\ history' = history
        /\ faults' \in Nat
    BY HistoryKept
    DEF StorageFails, Fault, Pcs, ArtifactInv, ArtifactTypeOK
  <1>2. /\ work' \in [Calls -> WorkStates]
        /\ work'[c].pc = "unavailable"
        /\ \A d \in Calls : d # c => work'[d] = work[d]
    BY <1>1, MovesWork
  <1>3. /\ object' \in
             [Submissions -> [Versions -> [Kinds -> Units \cup {Missing}]]]
        /\ ObjectsStay /\ ManifestsHavePdf'
    <2>1. CASE object' = object
      BY <1>1, <2>1, StorageStays
    <2>2. CASE ObjectOf(c) = Missing /\ SetObject(c)
      BY <1>1, <2>2, StoringStands
    <2> QED BY <2>1, <2>2 DEF StorageFails
  <1>4. HistoryStays
    BY <1>1 DEF HistoryStays
  <1> QED
    BY <1>1, <1>2, <1>3, <1>4, ArtifactsStay, RestingStands DEF ArtifactMoves

LEMMA FailureMoves ==
  ASSUME ArtifactInv, NEW c \in Calls, RecordFailure(c)
  PROVE  ArtifactMoves(c)
  <1> DEFINE s == work[c].sub
             v == work[c].version
             status == IF work[c].pc = "mismatch" THEN "integrity_failed"
                       ELSE "failed_recoverable"
             a == [ArtifactOf(c) EXCEPT !.status = status]
  <1>1. object' = object /\ history' = history /\ faults' \in Nat /\ Throws(c)
    BY HistoryKept DEF RecordFailure, ArtifactInv, ArtifactTypeOK
  <1>2. /\ work' \in [Calls -> WorkStates]
        /\ work'[c].pc = "idle"
        /\ \A d \in Calls : d # c => work'[d] = work[d]
    BY <1>1, ThrowsWork
  <1>3. /\ artifact' \in [Submissions -> [Versions -> ArtifactDocuments]]
        /\ \A x \in Submissions, y \in Versions :
             \/ artifact'[x][y].status # "ready"
             \/ /\ artifact[x][y].status = "ready"
                /\ artifact'[x][y].request = artifact[x][y].request
    <2>1. CASE Reserved(c)
      <3>1. a \in ArtifactDocuments /\ a.status # "ready"
        BY CallFacts DEF ArtifactDocuments
      <3>2. artifact' = [artifact EXCEPT ![s][v] = a]
        BY <2>1 DEF RecordFailure, SetArtifact
      <3> HIDE DEF a
      <3> QED BY <3>1, <3>2, CallFacts
    <2>2. CASE ~Reserved(c)
      <3>1. artifact' = artifact
        BY <2>2 DEF RecordFailure
      <3> QED BY <3>1, ArtifactsStay
    <2> QED BY <2>1, <2>2
  <1> QED
    BY <1>1, <1>2, <1>3, StorageStays, RestingStands DEF ArtifactMoves

LEMMA PublishMoves ==
  ASSUME SubmissionInv, ArtifactInv, NEW c \in Calls, Publish(c)
  PROVE  /\ ArtifactMoves(c) /\ HistoryGrows(work[c].sub)
         /\ UNCHANGED <<submission, package, response>>
  <1> DEFINE s == work[c].sub
             v == work[c].version
             x == work[c].request
             a == [ArtifactOf(c) EXCEPT !.status = "ready"]
  <1>1. /\ work[c].pc = "finalize" /\ ArtifactOf(c).request = x
        /\ object' = object /\ faults' = faults
        /\ Moves(c, "answered") /\ "answered" \in Pcs
        /\ artifact' = [artifact EXCEPT ![s][v] = a]
        /\ UNCHANGED <<submission, package, response>>
    BY DEF Publish, HoldsReservation, Reserved, Pcs, SetArtifact
  <1>2. s \in Submissions /\ v \in Versions
    BY CallFacts
  <1>3. /\ HistoryGrows(s)
        /\ Recorded(history'[s], MaterializedEvent(x, v))
    <2>1. ~Recorded(history[s], MaterializedEvent(x, v))
      BY <1>2 DEF Publish, EventFound
    <2>2. history' = [history EXCEPT ![s] = Append1(@, MaterializedEvent(x, v))]
      BY DEF Publish
    <2> HIDE DEF s, v, x
    <2> QED
      BY <1>2, <2>1, <2>2, MaterializedIsSound
  <1>4. /\ work' \in [Calls -> WorkStates]
        /\ work'[c].pc = "answered"
        /\ \A d \in Calls : d # c => work'[d] = work[d]
    BY <1>1, MovesWork
  <1>5. a \in ArtifactDocuments /\ a.request = x
    BY <1>1, CallFacts DEF ArtifactDocuments
  <1> HIDE DEF a
  <1>6. /\ artifact' \in [Submissions -> [Versions -> ArtifactDocuments]]
        /\ artifact'[s][v] = a /\ artifact'[s][v].request = x
        /\ \A y \in Submissions, z \in Versions :
             y # s \/ z # v => artifact'[y][z] = artifact[y][z]
    BY <1>1, <1>2, <1>5, CallFacts
  <1>7. ASSUME NEW y \in Submissions, NEW z \in Versions, y = s, z = v
        PROVE  ReadyIsStored(y, z)'
    <2>1. /\ work[c].unit \in Units
          /\ object[s][v]["pdf"] = work[c].unit
          /\ object[s][v]["json"] = work[c].unit
      BY <1>1 DEF ArtifactInv, CallStands
    <2>2. /\ UNCHANGED object
          /\ Recorded(history'[s], MaterializedEvent(x, v))
      BY <1>1, <1>3
    <2>3. work[c].unit # Missing
      BY <2>1, ArtifactAssumption
    <2> HIDE DEF s, v, x
    <2>4. /\ object'[y][z]["pdf"] # Missing /\ object'[y][z]["json"] # Missing
          /\ artifact'[y][z].request = x
      BY <2>1, <2>2, <2>3, <1>6, <1>7
    <2> QED BY <2>2, <2>4, <1>7 DEF ReadyIsStored
  <1>8. ObjectsStay /\ ManifestsHavePdf'
    BY <1>1, StoredParts DEF ObjectsStay, ManifestsHavePdf, ArtifactInv
  <1>9. HistoryStays
    BY <1>3 DEF HistoryStays, HistoryGrows
  <1>10. /\ object' \in
              [Submissions -> [Versions -> [Kinds -> Units \cup {Missing}]]]
         /\ faults' \in Nat
    BY <1>1 DEF ArtifactInv, ArtifactTypeOK
  <1>11. CallStands(c)'
    BY <1>4, RestingStands
  <1> QED
    BY <1>1, <1>3, <1>4, <1>6, <1>7, <1>8, <1>9, <1>10, <1>11
    DEF ArtifactMoves

\* Every step of a call leaves the submissions alone, except that Publish
\* records an event.
LEMMA MaterializeMoves ==
  ASSUME SubmissionInv, ArtifactInv, NEW c \in Calls, MaterializeNext(c)
  PROVE  /\ ArtifactMoves(c)
         /\ UNCHANGED protectionVars
         /\ \/ UNCHANGED submissionVars
            \/ /\ HistoryGrows(work[c].sub)
               /\ UNCHANGED <<submission, package, response>>
  <1> DEFINE Goal == /\ ArtifactMoves(c)
                     /\ UNCHANGED protectionVars
                     /\ \/ UNCHANGED submissionVars
                        \/ /\ HistoryGrows(work[c].sub)
                           /\ UNCHANGED <<submission, package, response>>
  <1>1. faults \in Nat
    BY DEF ArtifactInv, ArtifactTypeOK
  <1>2. ASSUME NEW s \in Submissions, NEW v \in Versions, NEW x \in Artifacts,
               Reserve(c, s, v, x)
        PROVE  Goal
    BY <1>2, ReserveMoves DEF Reserve
  <1>3. ASSUME NEW s \in Submissions, NEW v \in Versions, NEW x \in Artifacts,
               AnswerReady(c, s, v, x)
        PROVE  Goal
    <2> DEFINE w == [IdleWork EXCEPT !.pc = "answered", !.sub = s,
                                     !.version = v, !.request = x]
    <2>1. w \in WorkStates /\ w.pc = "answered"
      BY IdleStands DEF WorkStates, Pcs
    <2>2. work' = [work EXCEPT ![c] = w]
      BY <1>3 DEF AnswerReady
    <2> HIDE DEF w
    <2>3. /\ work' \in [Calls -> WorkStates]
          /\ work'[c].pc = "answered"
          /\ \A d \in Calls : d # c => work'[d] = work[d]
      BY <2>1, <2>2, CallFacts
    <2>4. UNCHANGED submissionVars /\ UNCHANGED protectionVars
          /\ UNCHANGED <<artifact, object, faults>>
      BY <1>3 DEF AnswerReady
    <2> QED
      BY <1>1, <2>3, <2>4, RestMoves, RestingStands, HistoryKept
  <1>4. CASE StoreObject(c)
    BY <1>4, StoreMoves DEF StoreObject
  <1>5. CASE StorageFails(c)
    BY <1>5, StorageFailsMoves DEF StorageFails
  <1>6. CASE RecordFailure(c)
    BY <1>6, FailureMoves DEF RecordFailure
  <1>7. CASE Publish(c)
    BY <1>7, PublishMoves DEF Publish
  <1>8. CASE ObjectMismatch(c) \/ PublishedBefore(c)
    <2>1. PICK pc \in {"mismatch", "answered"} : Moves(c, pc)
      BY <1>8 DEF ObjectMismatch, PublishedBefore
    <2>2. /\ work' \in [Calls -> WorkStates]
          /\ work'[c].pc = pc
          /\ \A d \in Calls : d # c => work'[d] = work[d]
      BY <2>1, MovesWork DEF Pcs
    <2>3. UNCHANGED submissionVars /\ UNCHANGED protectionVars
          /\ UNCHANGED <<artifact, object, faults>>
      BY <1>8 DEF ObjectMismatch, PublishedBefore
    <2> QED
      BY <1>1, <2>1, <2>2, <2>3, RestMoves, RestingStands, HistoryKept
  <1>9. CASE ReservationLost(c) \/ CutOff(c)
    <2>1. /\ Throws(c)
          /\ UNCHANGED submissionVars /\ UNCHANGED protectionVars
          /\ UNCHANGED <<artifact, object>> /\ faults' \in Nat
      BY <1>1, <1>9 DEF ReservationLost, CutOff, Fault
    <2>2. /\ work' \in [Calls -> WorkStates]
          /\ work'[c].pc = "idle"
          /\ \A d \in Calls : d # c => work'[d] = work[d]
      BY <2>1, ThrowsWork
    <2> QED
      BY <2>1, <2>2, RestMoves, RestingStands, HistoryKept
  <1> QED
    BY <1>2, <1>3, <1>4, <1>5, <1>6, <1>7, <1>8, <1>9 DEF MaterializeNext

\* A step elsewhere that only adds events, or a lease that runs out, leaves
\* the calls and the objects alone.
LEMMA ArtifactRests ==
  ASSUME ArtifactInv, UNCHANGED <<object, work>>, faults' \in Nat,
         HistoryStays,
         artifact' \in [Submissions -> [Versions -> ArtifactDocuments]],
         \A s \in Submissions, v \in Versions :
           \/ artifact'[s][v].status # "ready"
           \/ /\ artifact[s][v].status = "ready"
              /\ artifact'[s][v].request = artifact[s][v].request
  PROVE  ArtifactInv'
  <1>1. ArtifactTypeOK' /\ \A c \in Calls : CallStands(c)'
    BY DEF ArtifactInv, ArtifactTypeOK, CallStands
  <1>2. ASSUME NEW s \in Submissions, NEW v \in Versions
        PROVE  ReadyIsStored(s, v)'
    <2>1. ReadyIsStored(s, v)
      BY StoredParts DEF ArtifactInv
    <2> QED BY <2>1 DEF ReadyIsStored, HistoryStays
  <1>3. ManifestsHavePdf'
    BY StoredParts DEF ArtifactInv, ManifestsHavePdf
  <1>4. ReadyArtifactStored'
    BY <1>2, <1>3
    DEF ReadyArtifactStored, ManifestsHavePdf, ReadyIsStored, Downloadable,
        Kinds
  <1> QED BY <1>1, <1>4 DEF ArtifactInv

-----------------------------------------------------------------------------
(* The invariant, and the properties.                                      *)

LEMMA CustomsInit1 ==
  CustomsInit => CustomsInv
  <1> SUFFICES ASSUME CustomsInit PROVE CustomsInv
    OBVIOUS
  <1>1. ProtectionInv /\ SubmissionInv
    BY ProtectionInit1, SubmissionInit1 DEF CustomsInit
  <1>2. ArtifactTypeOK
    BY IdleStands
    DEF CustomsInit, ArtifactTypeOK, NoArtifact, ArtifactDocuments
  <1>3. \A c \in Calls : CallStands(c)
    BY DEF CustomsInit, CallStands, IdleWork
  <1>4. ReadyArtifactStored
    BY DEF CustomsInit, ReadyArtifactStored, NoArtifact, Kinds
  <1> QED BY <1>1, <1>2, <1>3, <1>4 DEF CustomsInv, ArtifactInv

LEMMA CustomsStep ==
  ASSUME CustomsInv, [CustomsNext]_customsVars
  PROVE  CustomsInv'
  <1>1. ProtectionInv /\ SubmissionInv /\ ArtifactInv
    BY DEF CustomsInv
  <1>2. ASSUME UNCHANGED <<submissionVars, artifactVars>>
        PROVE  SubmissionInv' /\ ArtifactInv'
    <2>1. SubmissionInv'
      BY <1>1, <1>2, SubmissionStutter
    <2>2. ArtifactInv'
      BY <1>1, <1>2, ArtifactRests, ArtifactsStay, HistoryKept
      DEF artifactVars, ArtifactInv, ArtifactTypeOK
    <2> QED BY <2>1, <2>2
  <1>3. CASE UNCHANGED customsVars
    BY <1>1, <1>2, <1>3, ProtectionStep DEF customsVars, CustomsInv
  <1>4. CASE ProtectionNext /\ UNCHANGED <<submissionVars, artifactVars>>
    BY <1>1, <1>2, <1>4, ProtectionStep DEF CustomsInv
  <1>5. ASSUME NEW s \in Submissions, SubmissionNext(s), UNCHANGED artifactVars
        PROVE  CustomsInv'
    <2>1. SubmissionMoves(s)
      BY <1>1, <1>5, EachMoves
    <2>2. HistoryGrows(s) /\ UNCHANGED protectionVars
      BY <2>1 DEF SubmissionMoves
    <2>3. SubmissionInv' /\ ProtectionInv'
      BY <1>1, <2>1, <2>2, SubmissionStep, ProtectionStep
    <2>4. HistoryStays
      BY <2>2 DEF HistoryStays, HistoryGrows
    <2>5. ArtifactInv'
      BY <1>1, <1>5, <2>4, ArtifactRests, ArtifactsStay
      DEF artifactVars, ArtifactInv, ArtifactTypeOK
    <2> QED BY <2>3, <2>5 DEF CustomsInv
  <1>6. ASSUME NEW c \in Calls, MaterializeNext(c)
        PROVE  CustomsInv'
    <2>1. /\ ArtifactMoves(c)
          /\ UNCHANGED protectionVars
          /\ \/ UNCHANGED submissionVars
             \/ /\ HistoryGrows(work[c].sub)
                /\ UNCHANGED <<submission, package, response>>
      BY <1>1, <1>6, MaterializeMoves
    <2>2. ArtifactInv' /\ ProtectionInv'
      BY <1>1, <2>1, ArtifactStep, ProtectionStep
    <2>3. SubmissionInv'
      BY <1>1, <2>1, CallFacts, SubmissionStep, SubmissionStutter
    <2> QED BY <2>2, <2>3 DEF CustomsInv
  <1>7. ASSUME NEW s \in Submissions, NEW v \in Versions, LeaseRunsOut(s, v)
        PROVE  CustomsInv'
    <2>1. /\ UNCHANGED protectionVars /\ UNCHANGED submissionVars
          /\ UNCHANGED <<object, work>>
          /\ faults' \in Nat
          /\ artifact' = [artifact EXCEPT ![s][v].leased = FALSE]
      BY <1>1, <1>7
      DEF LeaseRunsOut, Fault, ArtifactInv, ArtifactTypeOK
    <2>2. /\ artifact' \in [Submissions -> [Versions -> ArtifactDocuments]]
          /\ \A x \in Submissions, y \in Versions :
               /\ artifact'[x][y].status = artifact[x][y].status
               /\ artifact'[x][y].request = artifact[x][y].request
      <3> DEFINE a == [artifact[s][v] EXCEPT !.leased = FALSE]
      <3>1. artifact \in [Submissions -> [Versions -> ArtifactDocuments]]
        BY <1>1 DEF ArtifactInv, ArtifactTypeOK
      <3>2. artifact[s][v] \in ArtifactDocuments
        BY <3>1
      <3>3. /\ a \in ArtifactDocuments
            /\ a.status = artifact[s][v].status
            /\ a.request = artifact[s][v].request
        BY <3>2 DEF ArtifactDocuments
      <3>4. artifact' = [artifact EXCEPT ![s][v] = a]
        BY <2>1
      <3> HIDE DEF a
      <3> QED BY <3>1, <3>3, <3>4
    <2>3. ProtectionInv' /\ SubmissionInv' /\ HistoryStays
      BY <1>1, <2>1, ProtectionStep, SubmissionStutter, HistoryKept
    <2>4. ArtifactInv'
      BY <1>1, <2>1, <2>2, <2>3, ArtifactRests
    <2> QED BY <2>3, <2>4 DEF CustomsInv
  <1> QED
    BY <1>3, <1>4, <1>5, <1>6, <1>7 DEF CustomsNext

\* The inductive invariant of customs_security and
\* customs_authority_submission: it holds for any number of profiles,
\* interventions, submissions, versions, requests and calls.
THEOREM CustomsInvariant == CustomsSpec => []CustomsInv
  BY CustomsInit1, CustomsStep, PTL DEF CustomsSpec

\* Every history is whole and every counter right, whatever is repeated and
\* whoever else writes to the same history: the detail views find "verified"
\* true.
THEOREM JournalsStayWhole == CustomsSpec => []JournalsWhole
  <1>1. CustomsInv => JournalsWhole
    BY DEF CustomsInv, ProtectionInv, SubmissionInv, ArtifactInv,
           CustomsTypeOK, JournalsWhole, SoundJournal
  <1> QED BY <1>1, CustomsInvariant, PTL

\* What was sent to the authority is the current, approved package, and what
\* is concluded was sent and answered.
THEOREM SubmittedStands == CustomsSpec => []SubmittedPackageStands
  <1>1. CustomsInv => SubmittedPackageStands
    <2> SUFFICES ASSUME CustomsInv, NEW s \in Submissions
                 PROVE  /\ submission[s].external # 0 =>
                             /\ submission[s].external = submission[s].current
                             /\ Gates(s)
                             /\ LET frozen == package[s][submission[s].external]
                                IN /\ frozen # "absent"
                                   /\ SubmissionType[s] =
                                        "fsmh_protection_application" =>
                                        frozen = "active"
                        /\ submission[s].outcome # 0 =>
                             /\ submission[s].external # 0
                             /\ submission[s].outcome \in response[s]
                             /\ submission[s].status
                                  \in {"concluded", "archived"}
      BY DEF SubmittedPackageStands
    <2>1. /\ SubmissionStands(s) /\ PackagesStand(s)
          /\ submission[s].external \in {0} \cup Versions
      BY SubmissionFacts DEF CustomsInv, SubmissionDocuments
    <2> QED BY <2>1 DEF SubmissionStands, PackagesStand
  <1> QED BY <1>1, CustomsInvariant, PTL

\* A ready artifact has both its objects, rendered from the same state of the
\* submission, however calls overlap, fail and take over from each other.
THEOREM ReadyStaysStored == CustomsSpec => []ReadyArtifactStored
  <1>1. CustomsInv => ReadyArtifactStored
    BY DEF CustomsInv, ArtifactInv
  <1> QED BY <1>1, CustomsInvariant, PTL

\* No step takes away what an intervention has on record, and every outcome
\* that somebody answers for is signed off with the reference it rests on.
THEOREM RecordsAreKept == CustomsSpec => InterventionRecordKept
  <1> DEFINE Kept ==
        \A i \in Interventions :
          LET before == intervention[i]
              after == intervention'[i] IN
          /\ before.case # NoCase => after.case = before.case
          /\ before.signal => after.signal
          /\ before.approved => after.approved
          /\ before.decided => after.decided
          /\ after.status \in SignedStatuses => after.approved
          /\ after.status \in {"destroyed", "released"} => after.decided
          /\ after.status = "referred_to_authority" => after.authority
          /\ after.status # "absent" =>
               profile[after.profile].status # "absent"
  <1>1. ASSUME CustomsInv, [CustomsNext]_customsVars
        PROVE  [Kept]_customsVars
    <2> SUFFICES ASSUME CustomsNext, NEW i \in Interventions
                 PROVE  /\ RecordKept(intervention[i], intervention'[i])
                        /\ InterventionStands(intervention'[i])
      BY <1>1 DEF RecordKept, InterventionStands
    <2>1. InterventionStands(intervention[i]) /\ ProtectionInv
      BY <1>1 DEF CustomsInv, ProtectionInv
    <2>2. CASE intervention'[i] = intervention[i]
      BY <2>1, <2>2 DEF RecordKept
    <2>3. CASE intervention'[i] # intervention[i]
      <3>1. ASSUME UNCHANGED protectionVars
            PROVE  FALSE
        BY <2>3, <3>1 DEF protectionVars
      <3>2. ProtectionNext
        <4>1. ASSUME NEW s \in Submissions, SubmissionNext(s)
              PROVE  FALSE
          BY <1>1, <3>1, <4>1, EachMoves DEF SubmissionMoves, CustomsInv
        <4>2. ASSUME NEW c \in Calls, MaterializeNext(c)
              PROVE  FALSE
          BY <1>1, <3>1, <4>2, MaterializeMoves DEF CustomsInv
        <4>3. ASSUME NEW s \in Submissions, NEW v \in Versions,
                     LeaseRunsOut(s, v)
              PROVE  FALSE
          BY <3>1, <4>3 DEF LeaseRunsOut
        <4> QED BY <4>1, <4>2, <4>3 DEF CustomsNext
      <3>3. PICK j \in Interventions : InterventionNext(j)
        BY <2>1, <2>3, <3>2, ProfileEffect DEF ProtectionNext
      <3>4. i = j
        BY <2>1, <2>3, <3>3, InterventionEffect
      <3> QED BY <2>1, <3>3, <3>4, InterventionEffect
    <2> QED BY <2>2, <2>3
  <1>2. CustomsInv /\ [CustomsNext]_customsVars => [Kept]_customsVars
    BY <1>1
  <1>3. CustomsSpec => [][Kept]_customsVars
    BY <1>2, CustomsInvariant, PTL DEF CustomsSpec
  <1> QED BY <1>3 DEF InterventionRecordKept

=============================================================================
