----------------------- MODULE RiskScanScheduleProofs -----------------------
(***************************************************************************)
(* Theorems about the two functions of the risk scan that a schedule       *)
(* starts.  HandoffReconciliation: for every set of handoffs and triggers, *)
(* every limit of the scan and of the cycle, every lease and every         *)
(* back-off.  RiskScanRetention: for every set of requests, channels,      *)
(* scopes and cleaners and every limit, window and lifetime.               *)
(***************************************************************************)
EXTENDS HandoffReconciliation, RiskScanRetention, FiniteSetTheorems,
        WellFoundedInduction, TLAPS

-----------------------------------------------------------------------------
(* The handoffs of a cycle.                                                *)

ReconciliationInv == ReconciliationTypeOK /\ Behind

LEMMA NoCycleTypes == NoCycle \in CycleRecords
  <1>1. /\ 0 \in 0..CycleLimit
        /\ [h \in Handoffs |-> NoDue] \in [Handoffs -> Nat]
    BY ReconciliationAssumption DEF NoDue
  <1> QED BY <1>1 DEF NoCycle, CycleRecords

LEMMA InitInvariant == Init => ReconciliationInv
  <1> SUFFICES ASSUME Init PROVE ReconciliationInv
    OBVIOUS
  <1>1. NoCycle \in CycleRecords
    BY NoCycleTypes
  <1>2. handoff \in [Handoffs -> HandoffRecords]
    BY ReconciliationAssumption DEF Init, NoDue, HandoffRecords
  <1>3. ReconciliationTypeOK
    BY <1>1, <1>2, ReconciliationAssumption DEF Init, ReconciliationTypeOK
  <1>4. Behind
    BY DEF Init, Behind
  <1> QED BY <1>3, <1>4 DEF ReconciliationInv

-----------------------------------------------------------------------------
(* Types.                                                                  *)

LEMMA NewRecord ==
  ASSUME NEW state \in HandoffStates, NEW t \in Nat,
         NEW attempt \in 0..MaxAttempts
  PROVE  [state |-> state, due |-> t, attempt |-> attempt] \in HandoffRecords
  BY DEF HandoffRecords

LEMMA WriteTypes ==
  ASSUME ReconciliationTypeOK, NEW h \in Handoffs, NEW state \in HandoffStates,
         NEW t \in Nat, Write(h, state, t)
  PROVE  handoff' \in [Handoffs -> HandoffRecords]
  BY ZenonT(30) DEF Write, ReconciliationTypeOK, HandoffRecords

LEMMA ClaimTypes ==
  ASSUME ReconciliationTypeOK, NEW w \in Workers, NEW h \in Handoffs,
         Claims(w, h) \/ DeadLetters(h)
  PROVE  /\ handoff' \in [Handoffs -> HandoffRecords]
         /\ worker' \in [Workers -> LeaseRecords \cup {Free}]
  <1>1. CASE Claims(w, h)
    <2>1. handoff[h].attempt + 1 \in 1..MaxAttempts /\ clock + Lease \in Nat
      BY <1>1, ReconciliationAssumption
      DEF Claims, ReconciliationTypeOK, HandoffRecords
    <2>2. handoff[h].attempt + 1 \in 0..MaxAttempts
          /\ "child_dispatching" \in HandoffStates
      BY <2>1 DEF HandoffStates
    <2>3. [state   |-> "child_dispatching",
           due     |-> clock + Lease,
           attempt |-> handoff[h].attempt + 1] \in HandoffRecords
      BY <2>1, <2>2, NewRecord
    <2>4. [handoff |-> h, attempt |-> handoff[h].attempt + 1] \in LeaseRecords
      BY <2>1 DEF LeaseRecords
    <2> QED BY <1>1, <2>3, <2>4 DEF Claims, ReconciliationTypeOK
  <1>2. CASE DeadLetters(h)
    <2>1. "dead_letter" \in HandoffStates /\ NoDue \in Nat
      BY DEF HandoffStates, NoDue
    <2> QED BY <1>2, <2>1, WriteTypes DEF DeadLetters, ReconciliationTypeOK
  <1> QED BY <1>1, <1>2

LEMMA HistoryTypes ==
  ASSUME ReconciliationTypeOK, NEW h \in Handoffs, WaitsAnew(h)
  PROVE  /\ overtaken' \in [Handoffs -> [Handoffs -> Nat]]
         /\ passedOver' \in [Handoffs -> Nat]
  <1>1. [f \in Handoffs |-> 0] \in [Handoffs -> Nat]
    OBVIOUS
  <1> QED BY <1>1 DEF ReconciliationTypeOK, WaitsAnew

LEMMA CycleTypes ==
  ASSUME ReconciliationTypeOK, NEW h \in Handoffs,
         Reaches(h) \/ cycle' = Without(h)
  PROVE  cycle' \in CycleRecords
  <1>1. Without(h) \in CycleRecords /\ Without(h).attempted = cycle.attempted
    BY DEF ReconciliationTypeOK, Without, CycleRecords
  <1>2. CASE Reaches(h)
    <2>1. cycle.attempted + 1 \in 0..CycleLimit
      BY <1>2, ReconciliationAssumption
      DEF Reaches, ReconciliationTypeOK, CycleRecords
    <2> HIDE DEF Without
    <2> QED BY <1>1, <1>2, <2>1 DEF Reaches, CycleRecords
  <1> QED BY <1>1, <1>2

LEMMA MarkTypes ==
  ASSUME ReconciliationTypeOK, NEW w \in Workers,
         NEW state \in HandoffStates, NEW t \in Nat, Marks(w, state, t)
  PROVE  ReconciliationTypeOK'
  <1>1. worker[w].handoff \in Handoffs
    BY DEF Marks, HoldsLease, ReconciliationTypeOK, LeaseRecords
  <1>2. handoff' \in [Handoffs -> HandoffRecords] /\ cycle' \in CycleRecords
    BY <1>1, WriteTypes, CycleTypes DEF Marks
  <1>3. /\ overtaken' \in [Handoffs -> [Handoffs -> Nat]]
        /\ passedOver' \in [Handoffs -> Nat]
    BY <1>1, HistoryTypes DEF Marks
  <1> QED BY <1>2, <1>3 DEF Marks, ReconciliationTypeOK

LEMMA RetryTypes ==
  ASSUME ReconciliationTypeOK, NEW w \in Workers, HoldsLease(w)
  PROVE  clock + RetryDelay[worker[w].attempt] \in Nat
         /\ clock + RetryDelay[worker[w].attempt] > clock
  <1>1. worker[w].attempt \in 1..MaxAttempts
    BY DEF ReconciliationTypeOK, HoldsLease, LeaseRecords
  <1>2. RetryDelay[worker[w].attempt] \in Nat \ {0}
    BY <1>1, ReconciliationAssumption
  <1> QED BY <1>2 DEF ReconciliationTypeOK

LEMMA TypeStep == ReconciliationTypeOK /\ [Next]_vars => ReconciliationTypeOK'
  <1> SUFFICES ASSUME ReconciliationTypeOK, [Next]_vars
               PROVE  ReconciliationTypeOK'
    OBVIOUS
  <1>1. CASE ClockAdvances
    BY <1>1 DEF ClockAdvances, history, ReconciliationTypeOK
  <1>2. CASE StartCycle
    <2>1. PICK listing \in SUBSET Handoffs :
            cycle' = [open      |-> TRUE,
                      listed    |-> listing,
                      dueThen   |-> [h \in Handoffs |->
                                       IF h \in listing THEN handoff[h].due
                                                        ELSE NoDue],
                      attempted |-> 0,
                      unreached |-> Due]
      BY <1>2 DEF StartCycle
    <2>2. Due \in SUBSET Handoffs /\ 0 \in 0..CycleLimit
      BY ReconciliationAssumption DEF Due
    <2>3. [h \in Handoffs |-> IF h \in listing THEN handoff[h].due ELSE NoDue]
            \in [Handoffs -> Nat]
      BY DEF ReconciliationTypeOK, HandoffRecords, NoDue
    <2>4. cycle' \in CycleRecords
      BY <2>1, <2>2, <2>3 DEF CycleRecords
    <2> QED BY <1>2, <2>4
        DEF StartCycle, history, ReconciliationTypeOK
  <1>3. CASE EndCycle \/ CutOff
    <2>1. cycle' \in CycleRecords
      BY <1>3, NoCycleTypes DEF EndCycle, CutOff
    <2>2. passedOver' \in [Handoffs -> Nat]
      BY <1>3 DEF EndCycle, CutOff, history, ReconciliationTypeOK
    <2>3. worker' \in [Workers -> LeaseRecords \cup {Free}]
      BY <1>3 DEF EndCycle, CutOff, ReconciliationTypeOK
    <2> QED BY <1>3, <2>1, <2>2, <2>3
        DEF EndCycle, CutOff, history, ReconciliationTypeOK
  <1>4. ASSUME NEW h \in Handoffs, ReconcilerClaims(h)
        PROVE  ReconciliationTypeOK'
    <2>1. overtaken' \in [Handoffs -> [Handoffs -> Nat]]
      BY <1>4 DEF ReconcilerClaims, ReconciliationTypeOK
    <2>2. passedOver' \in [Handoffs -> Nat]
      BY <1>4 DEF ReconcilerClaims, ReconciliationTypeOK
    <2>3. Reconciler \in Workers
      BY DEF Workers
    <2> QED BY <1>4, <2>1, <2>2, <2>3, ClaimTypes, CycleTypes
        DEF ReconcilerClaims, ReconciliationTypeOK
  <1>5. ASSUME NEW h \in Handoffs, ReconcilerDeadLetters(h)
        PROVE  ReconciliationTypeOK'
    <2>1. Reconciler \in Workers
      BY DEF Workers
    <2> QED BY <1>5, <2>1, ClaimTypes, CycleTypes, HistoryTypes
        DEF ReconcilerDeadLetters, ReconciliationTypeOK
  <1>6. ASSUME NEW h \in Handoffs, ReconcilerDeclined(h) \/ ReconcilerErrs(h)
        PROVE  ReconciliationTypeOK'
    <2>1. errors' \in 0..MaxErrors
      BY <1>6, ReconciliationAssumption
      DEF ReconcilerDeclined, ReconcilerErrs, ReconciliationTypeOK
    <2> QED BY <1>6, <2>1, CycleTypes, HistoryTypes
        DEF ReconcilerDeclined, ReconcilerErrs, ReconciliationTypeOK
  <1>7. ASSUME NEW h \in Handoffs, Accept(h)
        PROVE  ReconciliationTypeOK'
    <2>1. "accepted" \in HandoffStates /\ clock \in Nat
      BY DEF HandoffStates, ReconciliationTypeOK
    <2> QED BY <1>7, <2>1, WriteTypes DEF Accept, history, ReconciliationTypeOK
  <1>8. ASSUME NEW h \in Handoffs, Completes(h)
        PROVE  ReconciliationTypeOK'
    <2>1. "completed" \in HandoffStates /\ NoDue \in Nat
      BY DEF HandoffStates, NoDue
    <2> QED BY <1>8, <2>1, WriteTypes, CycleTypes, HistoryTypes
        DEF Completes, ReconciliationTypeOK
  <1>9. ASSUME NEW w \in Workers, NEW h \in Handoffs, TriggerTakes(w, h)
        PROVE  ReconciliationTypeOK'
    BY <1>9, ClaimTypes, CycleTypes, HistoryTypes
    DEF TriggerTakes, ReconciliationTypeOK
  <1>10. ASSUME NEW w \in Workers, MarkDispatched(w) \/ MarkFailed(w)
         PROVE  ReconciliationTypeOK'
    <2>1. {"child_dispatched", "failed", "dead_letter"} \subseteq HandoffStates
          /\ NoDue \in Nat
      BY DEF HandoffStates, NoDue
    <2>2. CASE Marks(w, "child_dispatched", NoDue)
               \/ Marks(w, "dead_letter", NoDue)
      BY <2>1, <2>2, MarkTypes
    <2>3. CASE Marks(w, "failed", clock + RetryDelay[worker[w].attempt])
      BY <2>1, <2>3, MarkTypes, RetryTypes DEF Marks
    <2> QED BY <1>10, <2>2, <2>3 DEF MarkDispatched, MarkFailed
  <1>11. ASSUME NEW w \in Workers, Leaves(w)
         PROVE  ReconciliationTypeOK'
    BY <1>11 DEF Leaves, history, ReconciliationTypeOK
  <1>12. CASE UNCHANGED vars
    BY <1>12 DEF vars, ReconciliationTypeOK
  <1> QED BY <1>1, <1>2, <1>3, <1>4, <1>5, <1>6, <1>7, <1>8, <1>9, <1>10,
             <1>11, <1>12 DEF Next, Cycle

-----------------------------------------------------------------------------
(* The order of those who wait.                                            *)

\* A step that rewrites one handoff, if at all to a later due time, and takes
\* it off the listing or leaves it, disturbs nobody else's place.
LEMMA AnewKeepsBehind ==
  ASSUME ReconciliationTypeOK, Behind, NEW h \in Handoffs, WaitsAnew(h),
         ReconciliationTypeOK', clock' = clock,
         cycle'.listed \in {cycle.listed, cycle.listed \ {h}},
         cycle'.dueThen = cycle.dueThen,
         \A g \in Handoffs \ {h} : handoff'[g] = handoff[g],
         handoff'[h] = handoff[h]
           \/ /\ handoff'[h].state # "absent"
              /\ handoff'[h].state \in HandoffDueStates => clock < handoff'[h].due
  PROVE  Behind'
  <1> SUFFICES ASSUME NEW e \in Handoffs, NEW f \in Handoffs,
                      overtaken'[e][f] # 0
               PROVE  /\ handoff'[e].state # "absent"
                      /\ handoff'[f].state # "absent"
                      /\ handoff'[e].state \in HandoffDueStates =>
                           /\ overtaken'[e][f] = 1
                           /\ handoff'[e].due <= clock'
                           /\ handoff'[f].state \in HandoffDueStates =>
                                handoff'[e].due < handoff'[f].due
                           /\ f \in cycle'.listed =>
                                /\ e \in cycle'.listed
                                /\ cycle'.dueThen[e] < cycle'.dueThen[f]
    BY DEF Behind
  <1>1. e # h /\ overtaken'[e][f] = overtaken[e][f]
    BY DEF WaitsAnew, ReconciliationTypeOK
  <1>2. handoff'[e] = handoff[e]
    BY <1>1
  <1>3. /\ handoff[e].state # "absent" /\ handoff[f].state # "absent"
        /\ handoff[e].state \in HandoffDueStates =>
             /\ overtaken[e][f] = 1
             /\ handoff[e].due <= clock
             /\ handoff[f].state \in HandoffDueStates =>
                  handoff[e].due < handoff[f].due
             /\ f \in cycle.listed =>
                  /\ e \in cycle.listed
                  /\ cycle.dueThen[e] < cycle.dueThen[f]
    BY <1>1 DEF Behind
  <1>4. handoff'[f].state # "absent"
    BY <1>3
  <1>5. ASSUME handoff[e].state \in HandoffDueStates,
               handoff'[f].state \in HandoffDueStates
        PROVE  handoff'[e].due < handoff'[f].due
    <2>1. CASE handoff'[f] = handoff[f]
      BY <1>2, <1>3, <1>5, <2>1
    <2>2. CASE f = h /\ clock < handoff'[f].due
      <3>1. /\ clock \in Nat /\ handoff[e].due \in Nat
            /\ handoff'[f].due \in Nat
        BY DEF ReconciliationTypeOK, HandoffRecords
      <3> QED BY <1>2, <1>3, <1>5, <2>2, <3>1
    <2> QED BY <1>5, <2>1, <2>2
  <1> QED BY <1>1, <1>2, <1>3, <1>4, <1>5

\* A claim of the reconciler passes those that wait only once: whoever it has
\* passed already is ahead of it in the listing.
LEMMA ClaimKeepsBehind ==
  ASSUME ReconciliationTypeOK, ReconciliationTypeOK', Behind,
         NEW h \in Handoffs, ReconcilerClaims(h)
  PROVE  Behind'
  <1> SUFFICES ASSUME NEW e \in Handoffs, NEW f \in Handoffs,
                      overtaken'[e][f] # 0
               PROVE  /\ handoff'[e].state # "absent"
                      /\ handoff'[f].state # "absent"
                      /\ handoff'[e].state \in HandoffDueStates =>
                           /\ overtaken'[e][f] = 1
                           /\ handoff'[e].due <= clock'
                           /\ handoff'[f].state \in HandoffDueStates =>
                                handoff'[e].due < handoff'[f].due
                           /\ f \in cycle'.listed =>
                                /\ e \in cycle'.listed
                                /\ cycle'.dueThen[e] < cycle'.dueThen[f]
    BY DEF Behind
  <1>1. /\ clock' = clock /\ clock \in Nat
        /\ handoff'[h].state = "child_dispatching"
        /\ handoff'[h].due = clock + Lease /\ clock < clock + Lease
        /\ \A g \in Handoffs \ {h} : handoff'[g] = handoff[g]
    BY ReconciliationAssumption, SMTT(30)
    DEF ReconcilerClaims, Claims, ReconciliationTypeOK, HandoffRecords
  <1>2. /\ h \in cycle.listed
        /\ \A g \in cycle.listed : cycle.dueThen[h] <= cycle.dueThen[g]
        /\ cycle'.listed = cycle.listed \ {h} /\ cycle'.dueThen = cycle.dueThen
    BY DEF ReconcilerClaims, Reaches, IsNext, Without, ReconciliationTypeOK,
           CycleRecords
  <1>3. e # h
    BY DEF ReconcilerClaims
  <1>4. /\ handoff'[e] = handoff[e]
        /\ handoff[e].due \in Nat
        /\ cycle.dueThen[e] \in Nat /\ cycle.dueThen[h] \in Nat
    BY <1>1, <1>3 DEF ReconciliationTypeOK, HandoffRecords, CycleRecords
  <1>5. CASE f = h
    <2>1. CASE IsDue(e)
      <3>1. overtaken'[e][h] = overtaken[e][h] + 1
        BY <1>3, <2>1 DEF ReconcilerClaims, ReconciliationTypeOK
      <3>2. overtaken[e][h] = 0
        <4> SUFFICES ASSUME overtaken[e][h] # 0 PROVE FALSE
          OBVIOUS
        <4>1. e \in cycle.listed /\ cycle.dueThen[e] < cycle.dueThen[h]
          BY <1>2, <2>1 DEF Behind, IsDue
        <4> QED BY <1>2, <1>4, <4>1
      <3>3. handoff[e].state # "absent" /\ handoff[e].due <= clock
        BY <2>1 DEF IsDue, HandoffDueStates
      <3> QED BY <1>1, <1>2, <1>4, <1>5, <3>1, <3>2, <3>3,
                 ReconciliationAssumption
    <2>2. CASE ~IsDue(e)
      <3>1. overtaken[e][f] # 0
        BY <1>3, <2>2 DEF ReconcilerClaims
      <3>2. /\ handoff[e].state # "absent"
            /\ handoff[e].state \in HandoffDueStates => handoff[e].due <= clock
        BY <3>1 DEF Behind
      <3> QED BY <1>1, <1>4, <1>5, <2>2, <3>2 DEF IsDue
    <2> QED BY <2>1, <2>2
  <1>6. CASE f # h
    <2>1. overtaken'[e][f] = overtaken[e][f]
      BY <1>3, <1>6 DEF ReconcilerClaims, ReconciliationTypeOK
    <2>2. handoff'[f] = handoff[f]
      BY <1>1, <1>6
    <2> QED BY <1>1, <1>2, <1>3, <1>4, <1>6, <2>1, <2>2 DEF Behind
  <1> QED BY <1>5, <1>6

\* The listing has those that have been due for longest: whoever is behind
\* another one is listed behind it, or not at all.
LEMMA ListingKeepsBehind ==
  ASSUME ReconciliationTypeOK, Behind, StartCycle
  PROVE  Behind'
  <1>1. PICK listing \in SUBSET Handoffs :
          /\ Lists(listing)
          /\ cycle'.listed = listing
          /\ cycle'.dueThen = [h \in Handoffs |->
                                 IF h \in listing THEN handoff[h].due
                                                  ELSE NoDue]
    BY DEF StartCycle
  <1>2. UNCHANGED <<clock, handoff, overtaken>>
    BY DEF StartCycle, history
  <1> SUFFICES ASSUME NEW e \in Handoffs, NEW f \in Handoffs,
                      overtaken[e][f] # 0,
                      handoff[e].state \in HandoffDueStates, f \in listing
               PROVE  e \in listing /\ handoff[e].due < handoff[f].due
    BY <1>1, <1>2 DEF Behind
  <1>3. listing \subseteq Due
    BY <1>1 DEF Lists
  <1>4. e \in Due /\ handoff[e].due < handoff[f].due
    BY <1>3 DEF Behind, Due, IsDue
  <1>5. e \in listing
    <2> SUFFICES ASSUME e \notin listing PROVE FALSE
      OBVIOUS
    <2>1. handoff[f].due <= handoff[e].due
      BY <1>1, <1>4 DEF Lists
    <2> QED BY <1>4, <2>1 DEF ReconciliationTypeOK, HandoffRecords
  <1> QED BY <1>4, <1>5

LEMMA BehindStep ==
  ReconciliationTypeOK /\ ReconciliationTypeOK' /\ Behind /\ [Next]_vars
    => Behind'
  <1> SUFFICES ASSUME ReconciliationTypeOK, ReconciliationTypeOK', Behind,
                      [Next]_vars
               PROVE  Behind'
    OBVIOUS
  <1>1. CASE ClockAdvances
    <2>1. \A e \in Handoffs : handoff[e].due <= clock => handoff[e].due <= clock'
      BY <1>1 DEF ClockAdvances, ReconciliationTypeOK, HandoffRecords
    <2> QED BY <1>1, <2>1 DEF ClockAdvances, history, Behind
  <1>2. CASE StartCycle
    BY <1>2, ListingKeepsBehind
  <1>3. CASE EndCycle \/ CutOff
    <2>1. cycle'.listed = {}
      BY <1>3 DEF EndCycle, CutOff, NoCycle
    <2> QED BY <1>3, <2>1 DEF EndCycle, CutOff, history, Behind
  <1>4. ASSUME NEW h \in Handoffs, ReconcilerClaims(h)
        PROVE  Behind'
    BY <1>4, ClaimKeepsBehind
  <1>5. ASSUME NEW h \in Handoffs,
               \/ ReconcilerDeadLetters(h)
               \/ ReconcilerDeclined(h)
               \/ ReconcilerErrs(h)
        PROVE  Behind'
    <2>1. /\ WaitsAnew(h) /\ clock' = clock
          /\ cycle'.listed = cycle.listed \ {h}
          /\ cycle'.dueThen = cycle.dueThen
      BY <1>5 DEF ReconcilerDeadLetters, ReconcilerDeclined, ReconcilerErrs,
                  Reaches, Without, ReconciliationTypeOK, CycleRecords
    <2>2. /\ \A g \in Handoffs \ {h} : handoff'[g] = handoff[g]
          /\ handoff'[h] = handoff[h] \/ handoff'[h].state = "dead_letter"
      BY <1>5 DEF ReconcilerDeadLetters, ReconcilerDeclined, ReconcilerErrs,
                  DeadLetters, Write, ReconciliationTypeOK, HandoffRecords
    <2> QED BY <2>1, <2>2, AnewKeepsBehind DEF HandoffDueStates
  <1>6. ASSUME NEW h \in Handoffs, Accept(h)
        PROVE  Behind'
    <2>1. \A e, f \in Handoffs : overtaken'[e][f] # 0 => e # h /\ f # h
      BY <1>6 DEF Accept, history, Behind
    <2>2. \A g \in Handoffs \ {h} : handoff'[g] = handoff[g]
      BY <1>6 DEF Accept, Write, ReconciliationTypeOK
    <2> QED BY <1>6, <2>1, <2>2 DEF Accept, history, Behind
  <1>7. ASSUME NEW h \in Handoffs, Completes(h)
        PROVE  Behind'
    <2>1. cycle'.listed = cycle.listed /\ cycle'.dueThen = cycle.dueThen
      BY <1>7 DEF Completes, Without, ReconciliationTypeOK, CycleRecords
    <2>2. /\ \A g \in Handoffs \ {h} : handoff'[g] = handoff[g]
          /\ handoff'[h].state = "completed"
      BY <1>7 DEF Completes, Write, ReconciliationTypeOK, HandoffRecords
    <2> QED BY <1>7, <2>1, <2>2, AnewKeepsBehind DEF Completes, HandoffDueStates
  <1>8. ASSUME NEW w \in Workers, NEW h \in Handoffs, TriggerTakes(w, h)
        PROVE  Behind'
    <2>1. /\ cycle'.listed = cycle.listed /\ cycle'.dueThen = cycle.dueThen
          /\ WaitsAnew(h) /\ clock' = clock
      BY <1>8 DEF TriggerTakes, Claims, DeadLetters, Without,
                  ReconciliationTypeOK, CycleRecords
    <2>2. CASE Claims(w, h)
      <3>1. /\ \A g \in Handoffs \ {h} : handoff'[g] = handoff[g]
            /\ handoff'[h].state = "child_dispatching"
            /\ clock < handoff'[h].due
        BY <2>2, ReconciliationAssumption DEF Claims, ReconciliationTypeOK
      <3> QED BY <2>1, <3>1, AnewKeepsBehind
    <2>3. CASE DeadLetters(h)
      <3>1. /\ \A g \in Handoffs \ {h} : handoff'[g] = handoff[g]
            /\ handoff'[h].state = "dead_letter"
        BY <2>3 DEF DeadLetters, Write, ReconciliationTypeOK, HandoffRecords
      <3> QED BY <2>1, <3>1, AnewKeepsBehind DEF HandoffDueStates
    <2> QED BY <1>8, <2>2, <2>3 DEF TriggerTakes
  <1>9. ASSUME NEW w \in Workers, MarkDispatched(w) \/ MarkFailed(w)
        PROVE  Behind'
    <2> DEFINE h == worker[w].handoff
    <2>1. HoldsLease(w)
      BY <1>9 DEF MarkDispatched, MarkFailed, Marks
    <2>2. h \in Handoffs
      BY <2>1 DEF HoldsLease, ReconciliationTypeOK, LeaseRecords
    <2>3. /\ cycle'.listed = cycle.listed /\ cycle'.dueThen = cycle.dueThen
          /\ WaitsAnew(h) /\ clock' = clock
      BY <1>9 DEF MarkDispatched, MarkFailed, Marks, Without,
                  ReconciliationTypeOK, CycleRecords
    <2>4. \A g \in Handoffs \ {h} : handoff'[g] = handoff[g]
      BY <1>9 DEF MarkDispatched, MarkFailed, Marks, Write, ReconciliationTypeOK
    <2>5. \/ handoff'[h].state \in {"child_dispatched", "dead_letter"}
          \/ /\ handoff'[h].state = "failed"
             /\ clock < handoff'[h].due
      <3>1. CASE Marks(w, "child_dispatched", NoDue)
                 \/ Marks(w, "dead_letter", NoDue)
        BY <2>2, <3>1 DEF Marks, Write, ReconciliationTypeOK, HandoffRecords
      <3>2. CASE Marks(w, "failed", clock + RetryDelay[worker[w].attempt])
        <4>1. handoff'[h].state = "failed"
              /\ handoff'[h].due = clock + RetryDelay[worker[w].attempt]
          BY <2>2, <3>2 DEF Marks, Write, ReconciliationTypeOK, HandoffRecords
        <4> QED BY <2>1, <4>1, RetryTypes
      <3> QED BY <1>9, <3>1, <3>2 DEF MarkDispatched, MarkFailed
    <2> HIDE DEF h
    <2>6. /\ handoff'[h].state # "absent"
          /\ handoff'[h].state \in HandoffDueStates => clock < handoff'[h].due
      BY <2>5 DEF HandoffDueStates
    <2> QED BY <2>2, <2>3, <2>4, <2>6, AnewKeepsBehind
  <1>10. ASSUME NEW w \in Workers, Leaves(w)
         PROVE  Behind'
    BY <1>10 DEF Leaves, history, Behind
  <1>11. CASE UNCHANGED vars
    BY <1>11 DEF vars, Behind
  <1> QED BY <1>1, <1>2, <1>3, <1>4, <1>5, <1>6, <1>7, <1>8, <1>9, <1>10,
             <1>11 DEF Next, Cycle

-----------------------------------------------------------------------------
(* How long a handoff waits.                                               *)

\* A handoff that no later cycle takes before one that has been due since t.
HasPassed(f, t) ==
    \/ handoff[f].state \in {"child_dispatched", "completed", "dead_letter"}
    \/ handoff[f].state \in HandoffDueStates /\ t < handoff[f].due

\* Those a due handoff has behind it.  One that the running cycle still has to
\* attempt does not count yet, although it may have been rewritten meanwhile.
Passed(h) ==
    {f \in Handoffs \ {h} :
       /\ HasPassed(f, handoff[h].due)
       /\ f \in cycle.listed => handoff[h].due < cycle.dueThen[f]}

\* What the finished cycles that passed over a handoff attempted, and the
\* running one so far, unless it reached the handoff.
Attempts(h) ==
    passedOver[h] * CycleLimit
      + IF h \in cycle.unreached THEN cycle.attempted ELSE 0

Turn ==
    \A h \in Handoffs :
      passedOver[h] # 0 \/ h \in cycle.unreached =>
        IsDue(h) /\ Attempts(h) <= Cardinality(Passed(h)) + errors

\* The listing has records that exist, by the due times they had; a handoff
\* that was due and is not listed found DueScanLimit others that were due before.
ListingIs ==
    /\ \A f \in cycle.listed : handoff[f].state # "absent"
    /\ \A h \in cycle.unreached :
         /\ h \in cycle.listed => cycle.dueThen[h] = handoff[h].due
         /\ h \notin cycle.listed =>
              /\ cycle.attempted + Cardinality(cycle.listed) = DueScanLimit
              /\ \A f \in cycle.listed : cycle.dueThen[f] <= handoff[h].due

\* One handoff of Turn.
TurnOf(h) ==
    passedOver[h] # 0 \/ h \in cycle.unreached =>
      IsDue(h) /\ Attempts(h) <= Cardinality(Passed(h)) + errors

\* A record that is rewritten to come after all that are due now.
GoesBehind(f) ==
    \/ handoff'[f].state \in {"child_dispatched", "completed", "dead_letter"}
    \/ handoff'[f].state \in HandoffDueStates /\ clock < handoff'[f].due

\* What a step makes of a record: nothing, its creation, or that.
Moves(f) ==
    handoff'[f] = handoff[f] \/ handoff[f].state = "absent" \/ GoesBehind(f)

\* What a step leaves of the listing.
ListingShrinks ==
    \A f \in cycle'.listed :
      f \in cycle.listed /\ cycle'.dueThen[f] = cycle.dueThen[f]

\* Sets of other handoffs can be counted, and there are not many of them.
LEMMA OthersCount ==
  ASSUME NEW h \in Handoffs, NEW S, S \subseteq Handoffs \ {h}
  PROVE  /\ IsFiniteSet(S) /\ Cardinality(S) \in Nat
         /\ Cardinality(Handoffs) \in Nat
         /\ Cardinality(S) <= Cardinality(Handoffs) - 1
  <1>1. IsFiniteSet(Handoffs \ {h}) /\ IsFiniteSet(Handoffs)
    BY ReconciliationAssumption, FS_Subset, Handoffs \ {h} \subseteq Handoffs
  <1>2. Cardinality(Handoffs \ {h}) = Cardinality(Handoffs) - 1
    BY <1>1, FS_RemoveElement
  <1>3. IsFiniteSet(S) /\ Cardinality(S) <= Cardinality(Handoffs \ {h})
    BY <1>1, FS_Subset
  <1> QED BY <1>1, <1>2, <1>3, FS_CardinalityType

LEMMA AttemptsAre ==
  ASSUME ReconciliationTypeOK, NEW h \in Handoffs
  PROVE  /\ passedOver[h] \in Nat /\ passedOver[h] * CycleLimit \in Nat
         /\ cycle.attempted \in Nat /\ cycle.attempted <= CycleLimit
         /\ CycleLimit \in Nat /\ CycleLimit # 0
         /\ errors \in Nat /\ clock \in Nat
         /\ handoff[h].due \in Nat
  <1>1. CycleLimit \in Nat \ {0} /\ MaxErrors \in Nat
    BY ReconciliationAssumption
  <1>2. passedOver[h] \in Nat
    BY DEF ReconciliationTypeOK
  <1>3. passedOver[h] * CycleLimit \in Nat
    BY <1>1, <1>2
  <1> QED
    BY <1>1, <1>2, <1>3
    DEF ReconciliationTypeOK, CycleRecords, HandoffRecords

\* Whoever is behind a handoff that is due and not rewritten stays behind it.
LEMMA PassedGrows ==
  ASSUME ReconciliationTypeOK, ReconciliationTypeOK', NEW h \in Handoffs,
         IsDue(h), handoff'[h] = handoff[h],
         \A f \in Handoffs \ {h} : Moves(f),
         ListingShrinks
  PROVE  /\ Passed(h) \subseteq Passed(h)'
         /\ Cardinality(Passed(h)) \in Nat /\ Cardinality(Passed(h)') \in Nat
         /\ Cardinality(Passed(h)) <= Cardinality(Passed(h)')
  <1>1. ASSUME NEW f \in Passed(h) PROVE f \in Passed(h)'
    <2>1. /\ f \in Handoffs \ {h} /\ HasPassed(f, handoff[h].due)
          /\ f \in cycle.listed => handoff[h].due < cycle.dueThen[f]
      BY DEF Passed
    <2>2. HasPassed(f, handoff[h].due)'
      <3>1. CASE handoff'[f] = handoff[f]
        BY <2>1, <3>1 DEF HasPassed
      <3>2. handoff[f].state # "absent"
        BY <2>1 DEF HasPassed, HandoffDueStates
      <3>3. CASE GoesBehind(f)
        <4>1. /\ handoff[h].due <= clock /\ handoff[h].due \in Nat /\ clock \in Nat
              /\ handoff'[f].due \in Nat
          BY <2>1 DEF IsDue, ReconciliationTypeOK, HandoffRecords
        <4>2. clock < handoff'[f].due => handoff[h].due < handoff'[f].due
          BY <4>1
        <4> QED BY <3>3, <4>2 DEF GoesBehind, HasPassed
      <3> QED BY <2>1, <3>1, <3>2, <3>3 DEF Moves
    <2>3. f \in cycle'.listed => handoff'[h].due < cycle'.dueThen[f]
      BY <2>1 DEF ListingShrinks
    <2> QED BY <2>1, <2>2, <2>3 DEF Passed
  <1>2. /\ Passed(h) \subseteq Handoffs \ {h}
        /\ Passed(h)' \subseteq Handoffs \ {h}
    BY DEF Passed
  <1>3. Passed(h) \subseteq Passed(h)'
    BY <1>1
  <1>4. /\ IsFiniteSet(Passed(h)')
        /\ Cardinality(Passed(h)) \in Nat /\ Cardinality(Passed(h)') \in Nat
    BY <1>2, OthersCount
  <1> QED BY <1>3, <1>4, FS_Subset

\* Steps that attempt nothing and finish no cycle.
LEMMA TurnStays ==
  ASSUME ReconciliationTypeOK, ReconciliationTypeOK', NEW h \in Handoffs,
         TurnOf(h), clock <= clock', errors' = errors,
         passedOver'[h] # 0 \/ h \in cycle'.unreached =>
           /\ handoff'[h] = handoff[h]
           /\ \A f \in Handoffs \ {h} : Moves(f)
           /\ ListingShrinks
           /\ passedOver'[h] = passedOver[h]
           /\ h \in cycle'.unreached =>
                h \in cycle.unreached /\ cycle'.attempted = cycle.attempted
  PROVE  TurnOf(h)'
  <1> SUFFICES ASSUME passedOver'[h] # 0 \/ h \in cycle'.unreached
               PROVE  /\ IsDue(h)'
                      /\ Attempts(h)' <= Cardinality(Passed(h)') + errors'
    BY DEF TurnOf
  <1>1. IsDue(h) /\ Attempts(h) <= Cardinality(Passed(h)) + errors
    BY DEF TurnOf
  <1>2. /\ Cardinality(Passed(h)) \in Nat /\ Cardinality(Passed(h)') \in Nat
        /\ Cardinality(Passed(h)) <= Cardinality(Passed(h)')
    BY <1>1, PassedGrows
  <1>3. IsDue(h)'
    BY <1>1 DEF IsDue, ReconciliationTypeOK, HandoffRecords
  <1>4. /\ passedOver'[h] * CycleLimit \in Nat /\ cycle.attempted \in Nat
        /\ errors \in Nat
    BY AttemptsAre
  <1>5. /\ Attempts(h)' <= Attempts(h)
        /\ Attempts(h)' \in Nat /\ Attempts(h) \in Nat
    BY <1>4 DEF Attempts
  <1> QED BY <1>1, <1>2, <1>3, <1>4, <1>5

\* The cycle attempts another handoff: it goes behind those that wait, which it
\* was not before, or its claim throws.
LEMMA TurnReached ==
  ASSUME ReconciliationTypeOK, ReconciliationTypeOK', ListingIs,
         NEW h \in Handoffs, NEW x \in Handoffs, TurnOf(h), x # h,
         Reaches(x), clock' = clock, handoff'[h] = handoff[h],
         passedOver'[h] = passedOver[h],
         \A f \in Handoffs \ {h} : Moves(f),
         \/ errors' = errors /\ GoesBehind(x)
         \/ errors' = errors + 1
  PROVE  TurnOf(h)'
  <1> SUFFICES ASSUME passedOver'[h] # 0 \/ h \in cycle'.unreached
               PROVE  /\ IsDue(h)'
                      /\ Attempts(h)' <= Cardinality(Passed(h)') + errors'
    BY DEF TurnOf
  <1>1. /\ cycle'.listed = cycle.listed \ {x} /\ cycle'.dueThen = cycle.dueThen
        /\ cycle'.attempted = cycle.attempted + 1
        /\ cycle'.unreached = cycle.unreached \ {x}
        /\ x \in cycle.listed
        /\ \A g \in cycle.listed : cycle.dueThen[x] <= cycle.dueThen[g]
    BY DEF Reaches, IsNext, Without, ReconciliationTypeOK, CycleRecords
  <1>2. IsDue(h) /\ Attempts(h) <= Cardinality(Passed(h)) + errors
    BY <1>1 DEF TurnOf
  <1>3. IsDue(h)'
    BY <1>2 DEF IsDue
  <1>4. ListingShrinks
    BY <1>1 DEF ListingShrinks
  <1>5. /\ Passed(h) \subseteq Passed(h)'
        /\ Cardinality(Passed(h)) \in Nat /\ Cardinality(Passed(h)') \in Nat
        /\ Cardinality(Passed(h)) <= Cardinality(Passed(h)')
    BY <1>2, <1>4, PassedGrows
  <1>6. /\ passedOver[h] * CycleLimit \in Nat /\ cycle.attempted \in Nat
        /\ errors \in Nat /\ clock \in Nat /\ handoff[h].due \in Nat
        /\ cycle.dueThen[x] \in Nat
    BY AttemptsAre DEF ReconciliationTypeOK, CycleRecords
  <1>7. CASE h \notin cycle.unreached
    <2>1. Attempts(h)' = Attempts(h) /\ Attempts(h) \in Nat
      BY <1>1, <1>6, <1>7 DEF Attempts
    <2> QED BY <1>2, <1>3, <1>5, <1>6, <2>1
  <1>8. CASE h \in cycle.unreached
    <2>1. Attempts(h)' = Attempts(h) + 1 /\ Attempts(h) \in Nat
      BY <1>1, <1>6, <1>8 DEF Attempts
    <2>2. CASE errors' = errors + 1
      BY <1>2, <1>3, <1>5, <1>6, <2>1, <2>2
    <2>3. CASE errors' = errors /\ GoesBehind(x)
      <3>1. cycle.dueThen[x] <= handoff[h].due
        BY <1>1, <1>8 DEF ListingIs
      <3>2. x \notin Passed(h)
        BY <1>1, <1>6, <3>1 DEF Passed
      <3>3. handoff[h].due <= clock /\ handoff'[x].due \in Nat
        BY <1>2 DEF IsDue, ReconciliationTypeOK, HandoffRecords
      <3>4. HasPassed(x, handoff[h].due)'
        BY <1>6, <2>3, <3>3 DEF GoesBehind, HasPassed
      <3>5. x \in Passed(h)'
        BY <1>1, <3>4 DEF Passed
      <3>6. /\ Passed(h)' \subseteq Handoffs \ {h}
            /\ Passed(h) \cup {x} \subseteq Handoffs \ {h}
            /\ Passed(h) \cup {x} \subseteq Passed(h)'
        BY <1>5, <3>5 DEF Passed
      <3>7. IsFiniteSet(Passed(h)') /\ IsFiniteSet(Passed(h))
        BY <3>6, OthersCount
      <3>8. Cardinality(Passed(h) \cup {x}) = Cardinality(Passed(h)) + 1
        BY <3>2, <3>7, FS_AddElement
      <3>9. Cardinality(Passed(h) \cup {x}) <= Cardinality(Passed(h)')
        BY <3>6, <3>7, FS_Subset
      <3> QED BY <1>2, <1>3, <1>5, <1>6, <2>1, <2>3, <3>8, <3>9
    <2> QED BY <2>2, <2>3
  <1> QED BY <1>7, <1>8

\* A new cycle counts from zero, and its listing has those behind a waiting
\* handoff by due times that are behind it too.
LEMMA TurnStarts ==
  ASSUME ReconciliationTypeOK, ReconciliationTypeOK', NEW h \in Handoffs,
         TurnOf(h), StartCycle
  PROVE  TurnOf(h)'
  <1> SUFFICES ASSUME passedOver'[h] # 0 \/ h \in cycle'.unreached
               PROVE  /\ IsDue(h)'
                      /\ Attempts(h)' <= Cardinality(Passed(h)') + errors'
    BY DEF TurnOf
  <1>1. /\ UNCHANGED <<clock, handoff, passedOver, errors>>
        /\ cycle'.attempted = 0 /\ cycle'.unreached = Due
    BY DEF StartCycle, history
  <1>2. \A f \in cycle'.listed : IsDue(f) /\ cycle'.dueThen[f] = handoff[f].due
    BY DEF StartCycle, Lists, Due
  <1>3. passedOver[h] * CycleLimit \in Nat /\ errors \in Nat
        /\ passedOver[h] \in Nat /\ CycleLimit \in Nat
        /\ cycle.attempted \in Nat
    BY AttemptsAre
  <1>4. IsDue(h)'
    BY <1>1 DEF TurnOf, Due, IsDue
  <1>5. Attempts(h)' = passedOver[h] * CycleLimit
    BY <1>1, <1>3 DEF Attempts
  <1>6. /\ Passed(h)' \subseteq Handoffs \ {h}
        /\ Passed(h) \subseteq Handoffs \ {h}
    BY DEF Passed
  <1>7. /\ Cardinality(Passed(h)') \in Nat /\ Cardinality(Passed(h)) \in Nat
        /\ IsFiniteSet(Passed(h)')
    BY <1>6, OthersCount
  <1>8. CASE passedOver[h] = 0
    <2>1. passedOver[h] * CycleLimit = 0
      BY <1>3, <1>8
    <2> QED BY <1>1, <1>3, <1>4, <1>5, <1>7, <2>1
  <1>9. CASE passedOver[h] # 0
    <2>1. Attempts(h) <= Cardinality(Passed(h)) + errors
      BY <1>9 DEF TurnOf
    <2>2. Passed(h) \subseteq Passed(h)'
      BY <1>1, <1>2 DEF Passed, HasPassed, IsDue, HandoffDueStates
    <2>3. Cardinality(Passed(h)) <= Cardinality(Passed(h)')
      BY <1>7, <2>2, FS_Subset
    <2>4. passedOver[h] * CycleLimit <= Attempts(h) /\ Attempts(h) \in Nat
      BY <1>3 DEF Attempts
    <2> QED BY <1>1, <1>3, <1>4, <1>5, <1>7, <2>1, <2>3, <2>4
  <1> QED BY <1>8, <1>9

\* A finished cycle that passed over a handoff used its limit up: the handoff
\* was listed, or the query found more than the cycle attempts.
LEMMA TurnEnds ==
  ASSUME ReconciliationTypeOK, ReconciliationTypeOK', ListingIs,
         CycleLimit <= DueScanLimit, NEW h \in Handoffs, TurnOf(h), EndCycle
  PROVE  TurnOf(h)'
  <1> SUFFICES ASSUME passedOver'[h] # 0 \/ h \in cycle'.unreached
               PROVE  /\ IsDue(h)'
                      /\ Attempts(h)' <= Cardinality(Passed(h)') + errors'
    BY DEF TurnOf
  <1>1. /\ UNCHANGED <<clock, handoff, errors>> /\ cycle' = NoCycle
        /\ passedOver'[h] = IF h \in cycle.unreached THEN passedOver[h] + 1
                                                     ELSE passedOver[h]
    BY DEF EndCycle, ReconciliationTypeOK
  <1>2. cycle'.listed = {} /\ cycle'.unreached = {}
    BY <1>1 DEF NoCycle
  <1>3. IsDue(h) /\ Attempts(h) <= Cardinality(Passed(h)) + errors
    BY <1>1, <1>2 DEF TurnOf
  <1>4. /\ Cardinality(Passed(h)) \in Nat /\ Cardinality(Passed(h)') \in Nat
        /\ Cardinality(Passed(h)) <= Cardinality(Passed(h)')
    BY <1>1, <1>2, <1>3, PassedGrows DEF Moves, ListingShrinks
  <1>5. /\ passedOver[h] \in Nat /\ passedOver[h] * CycleLimit \in Nat
        /\ cycle.attempted \in Nat /\ cycle.attempted <= CycleLimit
        /\ CycleLimit \in Nat /\ errors \in Nat
    BY AttemptsAre
  <1>6. Attempts(h)' = Attempts(h) /\ Attempts(h) \in Nat
    <2>1. Attempts(h)' = passedOver'[h] * CycleLimit
      BY <1>1, <1>2, <1>5 DEF Attempts
    <2>2. CASE h \notin cycle.unreached
      BY <1>1, <1>5, <2>1, <2>2 DEF Attempts
    <2>3. CASE h \in cycle.unreached
      <3>1. cycle.attempted = CycleLimit
        <4>1. CASE cycle.listed = {}
          <5>1. cycle.attempted + Cardinality({}) = DueScanLimit
            BY <2>3, <4>1 DEF ListingIs
          <5>2. DueScanLimit \in Nat /\ Cardinality({}) = 0
            BY ReconciliationAssumption, FS_EmptySet
          <5> QED BY <1>5, <5>1, <5>2
        <4> QED BY <4>1 DEF EndCycle
      <3>2. (passedOver[h] + 1) * CycleLimit
              = passedOver[h] * CycleLimit + CycleLimit
        BY <1>5
      <3> QED BY <1>1, <1>5, <2>1, <2>3, <3>1, <3>2 DEF Attempts
    <2> QED BY <2>2, <2>3
  <1>7. IsDue(h)'
    BY <1>1, <1>3 DEF IsDue
  <1> QED BY <1>1, <1>3, <1>4, <1>5, <1>6, <1>7

\* A step that rewrites one handoff outside the loop, which begins to wait anew
\* if it did not just begin to exist.
LEMMA TurnAnew ==
  ASSUME ReconciliationTypeOK, ReconciliationTypeOK', Turn, NEW x \in Handoffs,
         \A g \in Handoffs \ {x} : handoff'[g] = handoff[g],
         Moves(x), clock' = clock, errors' = errors,
         \/ WaitsAnew(x) /\ cycle' = Without(x)
         \/ /\ handoff[x].state = "absent"
            /\ UNCHANGED <<cycle, passedOver>>
  PROVE  Turn'
  <1> SUFFICES ASSUME NEW h \in Handoffs PROVE TurnOf(h)'
    BY DEF Turn, TurnOf
  <1>1. TurnOf(h) /\ clock \in Nat
    BY AttemptsAre DEF Turn, TurnOf
  <1>2. \A f \in Handoffs : Moves(f)
    BY DEF Moves
  <1>3. /\ cycle'.listed = cycle.listed /\ cycle'.dueThen = cycle.dueThen
        /\ cycle'.attempted = cycle.attempted
        /\ cycle'.unreached \in {cycle.unreached, cycle.unreached \ {x}}
    BY DEF Without, ReconciliationTypeOK, CycleRecords
  <1>4. ListingShrinks
    BY <1>3 DEF ListingShrinks
  <1>5. CASE h # x
    <2>1. passedOver'[h] = passedOver[h]
      BY <1>5 DEF WaitsAnew, ReconciliationTypeOK
    <2> QED BY <1>1, <1>2, <1>3, <1>4, <1>5, <2>1, TurnStays
  <1>6. CASE h = x
    <2>1. passedOver'[h] = 0 /\ h \notin cycle'.unreached
      <3>1. CASE WaitsAnew(x) /\ cycle' = Without(x)
        BY <1>6, <3>1 DEF WaitsAnew, Without, ReconciliationTypeOK, CycleRecords
      <3>2. CASE handoff[x].state = "absent" /\ UNCHANGED <<cycle, passedOver>>
        BY <1>1, <1>6, <3>2 DEF TurnOf, IsDue, HandoffDueStates
      <3> QED BY <3>1, <3>2
    <2> QED BY <2>1 DEF TurnOf
  <1> QED BY <1>5, <1>6

\* A step of the loop.
LEMMA TurnAttempted ==
  ASSUME ReconciliationTypeOK, ReconciliationTypeOK', Turn, ListingIs,
         NEW x \in Handoffs, Reaches(x), clock' = clock,
         \A g \in Handoffs \ {x} :
           handoff'[g] = handoff[g] /\ passedOver'[g] = passedOver[g],
         passedOver'[x] = 0, Moves(x),
         \/ errors' = errors /\ GoesBehind(x)
         \/ errors' = errors + 1
  PROVE  Turn'
  <1> SUFFICES ASSUME NEW h \in Handoffs PROVE TurnOf(h)'
    BY DEF Turn, TurnOf
  <1>1. TurnOf(h) /\ \A f \in Handoffs : Moves(f)
    BY DEF Turn, TurnOf, Moves
  <1>2. CASE h # x
    BY <1>1, <1>2, TurnReached
  <1>3. CASE h = x
    <2>1. h \notin cycle'.unreached
      BY <1>3 DEF Reaches, Without, ReconciliationTypeOK, CycleRecords
    <2> QED BY <1>3, <2>1 DEF TurnOf
  <1> QED BY <1>2, <1>3

\* What a claim makes of its record.
LEMMA ClaimMoves ==
  ASSUME ReconciliationTypeOK, ReconciliationTypeOK', NEW w, NEW x \in Handoffs,
         Claims(w, x) \/ DeadLetters(x)
  PROVE  /\ GoesBehind(x) /\ handoff'[x].state # "absent"
         /\ \A g \in Handoffs \ {x} : handoff'[g] = handoff[g]
  <1>1. CASE Claims(w, x)
    <2>1. /\ handoff'[x].state = "child_dispatching"
          /\ handoff'[x].due = clock + Lease
          /\ \A g \in Handoffs \ {x} : handoff'[g] = handoff[g]
      BY <1>1 DEF Claims, ReconciliationTypeOK
    <2>2. clock < clock + Lease
      BY ReconciliationAssumption DEF ReconciliationTypeOK
    <2> QED BY <2>1, <2>2 DEF GoesBehind, HandoffDueStates
  <1>2. CASE DeadLetters(x)
    <2>1. /\ handoff'[x].state = "dead_letter"
          /\ \A g \in Handoffs \ {x} : handoff'[g] = handoff[g]
      BY <1>2 DEF DeadLetters, Write, ReconciliationTypeOK, HandoffRecords
    <2> QED BY <2>1 DEF GoesBehind
  <1> QED BY <1>1, <1>2

\* What a mark makes of its record.
LEMMA MarkMoves ==
  ASSUME ReconciliationTypeOK, ReconciliationTypeOK', NEW w \in Workers,
         MarkDispatched(w) \/ MarkFailed(w)
  PROVE  \E x \in Handoffs :
           /\ GoesBehind(x) /\ handoff'[x].state # "absent"
           /\ \A g \in Handoffs \ {x} : handoff'[g] = handoff[g]
           /\ WaitsAnew(x) /\ cycle' = Without(x)
           /\ clock' = clock /\ errors' = errors
  <1>1. HoldsLease(w)
    BY DEF MarkDispatched, MarkFailed, Marks
  <1>2. PICK x \in Handoffs : x = worker[w].handoff
    BY <1>1 DEF HoldsLease, ReconciliationTypeOK, LeaseRecords
  <1>3. /\ WaitsAnew(x) /\ cycle' = Without(x)
        /\ clock' = clock /\ errors' = errors
        /\ \A g \in Handoffs \ {x} : handoff'[g] = handoff[g]
    BY <1>2 DEF MarkDispatched, MarkFailed, Marks, Write, ReconciliationTypeOK
  <1>4. CASE \/ Marks(w, "child_dispatched", NoDue)
             \/ Marks(w, "dead_letter", NoDue)
    <2>1. handoff'[x].state \in {"child_dispatched", "dead_letter"}
      BY <1>2, <1>4 DEF Marks, Write, ReconciliationTypeOK, HandoffRecords
    <2> QED BY <1>3, <2>1 DEF GoesBehind
  <1>5. CASE Marks(w, "failed", clock + RetryDelay[worker[w].attempt])
    <2>1. /\ handoff'[x].state = "failed"
          /\ handoff'[x].due = clock + RetryDelay[worker[w].attempt]
      BY <1>2, <1>5 DEF Marks, Write, ReconciliationTypeOK, HandoffRecords
    <2>2. clock < handoff'[x].due
      BY <1>1, <2>1, RetryTypes
    <2> QED BY <1>3, <2>1, <2>2 DEF GoesBehind, HandoffDueStates
  <1> QED BY <1>4, <1>5 DEF MarkDispatched, MarkFailed

\* A listed record that is no longer due is settled or comes later.
LEMMA DeclinedIsBehind ==
  ASSUME ReconciliationTypeOK, ReconciliationTypeOK', ListingIs,
         NEW x \in Handoffs, x \in cycle.listed, ~IsDue(x), handoff' = handoff
  PROVE  GoesBehind(x)
  <1>1. /\ handoff[x].state # "absent"
        /\ handoff[x].state \in HandoffStates \cup {"absent"}
        /\ handoff[x].due \in Nat /\ clock \in Nat
    BY DEF ListingIs, ReconciliationTypeOK, HandoffRecords
  <1>2. handoff[x].state \in HandoffDueStates => clock < handoff[x].due
    BY <1>1 DEF IsDue
  <1> QED BY <1>1, <1>2 DEF GoesBehind, HandoffStates, HandoffDueStates

LEMMA TurnStep ==
  ASSUME ReconciliationTypeOK, ReconciliationTypeOK', ListingIs, Turn,
         CycleLimit <= DueScanLimit, [Next]_vars
  PROVE  Turn'
  <1>1. CASE ClockAdvances \/ UNCHANGED vars \/ CutOff \/ \E w \in Workers : Leaves(w)
    <2> SUFFICES ASSUME NEW h \in Handoffs PROVE TurnOf(h)'
      BY DEF Turn, TurnOf
    <2>1. TurnOf(h) /\ clock \in Nat
      BY AttemptsAre DEF Turn, TurnOf
    <2>2. /\ UNCHANGED <<handoff, passedOver, errors>>
          /\ cycle' \in {cycle, NoCycle} /\ clock' \in {clock, clock + 1}
      BY <1>1 DEF ClockAdvances, vars, CutOff, Leaves, history
    <2>3. ListingShrinks /\ \A f \in Handoffs : Moves(f)
      BY <2>2 DEF ListingShrinks, Moves, NoCycle
    <2> QED BY <2>1, <2>2, <2>3, TurnStays DEF NoCycle
  <1>2. CASE StartCycle
    BY <1>2, TurnStarts DEF Turn, TurnOf
  <1>3. CASE EndCycle
    BY <1>3, TurnEnds DEF Turn, TurnOf
  <1>4. ASSUME NEW x \in Handoffs,
               ReconcilerClaims(x) \/ ReconcilerDeadLetters(x)
        PROVE  Turn'
    <2>1. /\ Reaches(x) /\ clock' = clock /\ errors' = errors
          /\ Claims(Reconciler, x) \/ DeadLetters(x)
          /\ passedOver'[x] = 0
          /\ \A g \in Handoffs \ {x} : passedOver'[g] = passedOver[g]
      BY <1>4 DEF ReconcilerClaims, ReconcilerDeadLetters, WaitsAnew,
                  ReconciliationTypeOK
    <2>2. /\ GoesBehind(x)
          /\ \A g \in Handoffs \ {x} : handoff'[g] = handoff[g]
      BY <2>1, ClaimMoves
    <2> QED BY <2>1, <2>2, TurnAttempted DEF Moves
  <1>5. ASSUME NEW x \in Handoffs, ReconcilerDeclined(x) \/ ReconcilerErrs(x)
        PROVE  Turn'
    <2>1. /\ Reaches(x) /\ clock' = clock /\ handoff' = handoff
          /\ passedOver'[x] = 0
          /\ \A g \in Handoffs \ {x} : passedOver'[g] = passedOver[g]
          /\ \/ errors' = errors /\ ~IsDue(x)
             \/ errors' = errors + 1
      BY <1>5 DEF ReconcilerDeclined, ReconcilerErrs, WaitsAnew,
                  ReconciliationTypeOK
    <2>2. errors' = errors /\ ~IsDue(x) => GoesBehind(x)
      BY <2>1, DeclinedIsBehind DEF Reaches, IsNext
    <2> QED BY <2>1, <2>2, TurnAttempted DEF Moves
  <1>6. ASSUME NEW x \in Handoffs, Accept(x)
        PROVE  Turn'
    <2>1. /\ handoff[x].state = "absent"
          /\ \A g \in Handoffs \ {x} : handoff'[g] = handoff[g]
          /\ UNCHANGED <<clock, cycle, passedOver, errors>>
      BY <1>6 DEF Accept, Write, history, ReconciliationTypeOK
    <2> QED BY <2>1, TurnAnew DEF Moves
  <1>7. ASSUME NEW x \in Handoffs, Completes(x)
        PROVE  Turn'
    <2>1. /\ handoff'[x].state = "completed"
          /\ \A g \in Handoffs \ {x} : handoff'[g] = handoff[g]
          /\ WaitsAnew(x) /\ cycle' = Without(x) /\ UNCHANGED <<clock, errors>>
      BY <1>7 DEF Completes, Write, ReconciliationTypeOK, HandoffRecords
    <2> QED BY <2>1, TurnAnew DEF Moves, GoesBehind
  <1>8. ASSUME NEW w \in Workers, NEW x \in Handoffs, TriggerTakes(w, x)
        PROVE  Turn'
    <2>1. /\ Claims(w, x) \/ DeadLetters(x)
          /\ WaitsAnew(x) /\ cycle' = Without(x) /\ UNCHANGED <<clock, errors>>
      BY <1>8 DEF TriggerTakes
    <2> QED BY <2>1, ClaimMoves, TurnAnew DEF Moves
  <1>9. ASSUME NEW w \in Workers, MarkDispatched(w) \/ MarkFailed(w)
        PROVE  Turn'
    BY <1>9, MarkMoves, TurnAnew DEF Moves
  <1> QED
    BY <1>1, <1>2, <1>3, <1>4, <1>5, <1>6, <1>7, <1>8, <1>9 DEF Next, Cycle

\* The listing loses a record with each attempt, and who is rewritten is no
\* longer one of those that the cycle did not reach.
LEMMA ListingKept ==
  ASSUME ReconciliationTypeOK, ReconciliationTypeOK', ListingIs,
         NEW x \in Handoffs,
         \A g \in Handoffs \ {x} : handoff'[g] = handoff[g],
         handoff'[x] = handoff[x] \/ handoff'[x].state # "absent",
         Reaches(x) \/ cycle' = Without(x)
  PROVE  ListingIs'
  <1>0. /\ cycle'.dueThen = cycle.dueThen
        /\ cycle'.unreached = cycle.unreached \ {x}
        /\ cycle'.listed \in {cycle.listed, cycle.listed \ {x}}
    BY DEF Reaches, Without, ReconciliationTypeOK, CycleRecords
  <1>1. /\ cycle'.dueThen = cycle.dueThen /\ x \notin cycle'.unreached
        /\ cycle'.unreached \subseteq cycle.unreached
        /\ cycle'.listed \subseteq cycle.listed
        /\ cycle.listed \subseteq Handoffs /\ cycle.unreached \subseteq Handoffs
        /\ cycle.attempted \in Nat
    BY <1>0, AttemptsAre DEF ReconciliationTypeOK, CycleRecords
  <1>2. \A h \in cycle'.unreached : h \in cycle'.listed <=> h \in cycle.listed
    BY <1>0
  <1>3. cycle'.attempted + Cardinality(cycle'.listed)
          = cycle.attempted + Cardinality(cycle.listed)
    <2>1. CASE Reaches(x)
      <3>1. /\ cycle'.listed = cycle.listed \ {x} /\ x \in cycle.listed
            /\ cycle'.attempted = cycle.attempted + 1
        BY <2>1 DEF Reaches, IsNext, Without, ReconciliationTypeOK, CycleRecords
      <3>2. IsFiniteSet(cycle.listed)
        BY <1>1, ReconciliationAssumption, FS_Subset
      <3>3. /\ Cardinality(cycle'.listed) = Cardinality(cycle.listed) - 1
            /\ Cardinality(cycle.listed) \in Nat
        BY <3>1, <3>2, FS_RemoveElement, FS_CardinalityType
      <3> QED BY <1>1, <3>1, <3>3
    <2>2. CASE cycle' = Without(x)
      BY <2>2 DEF Without, ReconciliationTypeOK, CycleRecords
    <2> QED BY <2>1, <2>2
  <1>4. \A f \in cycle'.listed : handoff'[f].state # "absent"
    BY <1>1 DEF ListingIs
  <1>5. ASSUME NEW h \in cycle'.unreached
        PROVE  /\ h \in cycle.unreached /\ handoff'[h] = handoff[h]
    BY <1>1
  <1> QED BY <1>1, <1>2, <1>3, <1>4, <1>5 DEF ListingIs

LEMMA ListingStep ==
  ASSUME ReconciliationTypeOK, ReconciliationTypeOK', ListingIs, Turn,
         [Next]_vars
  PROVE  ListingIs'
  <1>1. CASE ClockAdvances \/ UNCHANGED vars \/ EndCycle \/ CutOff
             \/ \E w \in Workers : Leaves(w)
    <2>1. handoff' = handoff /\ cycle' \in {cycle, NoCycle}
      BY <1>1 DEF ClockAdvances, vars, EndCycle, CutOff, Leaves, history
    <2> QED BY <2>1 DEF ListingIs, NoCycle
  <1>2. CASE StartCycle
    <2>1. PICK listing \in SUBSET Handoffs :
            /\ Lists(listing)
            /\ cycle'.listed = listing /\ cycle'.attempted = 0
            /\ cycle'.unreached = Due
            /\ cycle'.dueThen = [h \in Handoffs |->
                                   IF h \in listing THEN handoff[h].due
                                                    ELSE NoDue]
      BY <1>2 DEF StartCycle
    <2>2. handoff' = handoff /\ listing \subseteq Due /\ Due \subseteq Handoffs
      BY <1>2, <2>1 DEF StartCycle, Lists, Due
    <2>3. \A f \in listing : handoff[f].state # "absent"
      BY <2>2 DEF Due, IsDue, HandoffDueStates
    <2>4. ASSUME NEW h \in Due, h \notin listing
          PROVE  /\ 0 + Cardinality(listing) = DueScanLimit
                 /\ \A f \in listing : handoff[f].due <= handoff[h].due
      <3>1. Cardinality(listing) = DueScanLimit
        BY <2>1, <2>4 DEF Lists
      <3>2. 0 + Cardinality(listing) = DueScanLimit
        BY <3>1, ReconciliationAssumption
      <3> QED BY <2>1, <2>4, <3>2 DEF Lists
    <2>5. \A f \in listing : cycle'.dueThen[f] = handoff[f].due
      BY <2>1
    <2> QED BY <2>1, <2>2, <2>3, <2>4, <2>5 DEF ListingIs
  <1>3. ASSUME NEW x \in Handoffs, Accept(x) PROVE ListingIs'
    <2>0. handoff[x].state = "absent" /\ x \notin cycle.unreached
      BY <1>3 DEF Accept, Turn, IsDue, HandoffDueStates
    <2>1. /\ cycle' = cycle /\ x \notin cycle.listed
          /\ \A g \in Handoffs \ {x} : handoff'[g] = handoff[g]
          /\ handoff'[x].state = "accepted"
      BY <1>3 DEF Accept, Write, ReconciliationTypeOK, HandoffRecords, ListingIs
    <2>2. cycle.listed \subseteq Handoffs /\ cycle.unreached \subseteq Handoffs
      BY DEF ReconciliationTypeOK, CycleRecords
    <2>3. /\ \A f \in cycle.listed : handoff'[f] = handoff[f]
          /\ \A f \in cycle.unreached : handoff'[f] = handoff[f]
      BY <2>0, <2>1, <2>2
    <2> QED BY <2>1, <2>3 DEF ListingIs
  <1>4. ASSUME NEW x \in Handoffs,
               \/ ReconcilerClaims(x) \/ ReconcilerDeadLetters(x)
               \/ \E w \in Workers : TriggerTakes(w, x)
        PROVE  ListingIs'
    <2>1. /\ Reaches(x) \/ cycle' = Without(x)
          /\ \E w : Claims(w, x) \/ DeadLetters(x)
      BY <1>4 DEF ReconcilerClaims, ReconcilerDeadLetters, TriggerTakes
    <2> QED BY <2>1, ClaimMoves, ListingKept
  <1>5. ASSUME NEW x \in Handoffs, ReconcilerDeclined(x) \/ ReconcilerErrs(x)
        PROVE  ListingIs'
    BY <1>5, ListingKept DEF ReconcilerDeclined, ReconcilerErrs
  <1>6. ASSUME NEW x \in Handoffs, Completes(x) PROVE ListingIs'
    <2>1. /\ handoff'[x].state = "completed" /\ cycle' = Without(x)
          /\ \A g \in Handoffs \ {x} : handoff'[g] = handoff[g]
      BY <1>6 DEF Completes, Write, ReconciliationTypeOK, HandoffRecords
    <2> QED BY <2>1, ListingKept
  <1>7. ASSUME NEW w \in Workers, MarkDispatched(w) \/ MarkFailed(w)
        PROVE  ListingIs'
    BY <1>7, MarkMoves, ListingKept
  <1> QED BY <1>1, <1>2, <1>3, <1>4, <1>5, <1>6, <1>7 DEF Next, Cycle

-----------------------------------------------------------------------------
(* The theorems.                                                           *)

\* The inductive invariant: the types, and that whoever was claimed past a
\* handoff that is due is behind it, in its document and in the listing.
THEOREM ReconciliationInvariant == Spec => []ReconciliationInv
  <1>1. ReconciliationInv /\ [Next]_vars => ReconciliationInv'
    BY TypeStep, BehindStep DEF ReconciliationInv
  <1> QED BY InitInvariant, <1>1, PTL DEF Spec

\* A handoff that is due is overtaken at most once by each other one, whatever
\* the limits, the lease and the back-off, and however many cycles are cut off
\* or claims throw.
THEOREM NobodyOvertakesTwice == Spec => []NotOvertaken
  <1>1. ReconciliationInv => NotOvertaken
    <2> SUFFICES ASSUME ReconciliationInv, NEW e \in Handoffs,
                        NEW f \in Handoffs, IsDue(e)
                 PROVE  overtaken[e][f] <= 1
      BY DEF NotOvertaken
    <2>1. overtaken[e][f] # 0 => overtaken[e][f] = 1
      BY DEF ReconciliationInv, Behind, IsDue
    <2> QED BY <2>1
  <1> QED BY ReconciliationInvariant, <1>1, PTL

\* The query scans at least as many handoffs as a cycle attempts, as the
\* defaults of the reconciler do (100 and 25), which nothing enforces. Then no
\* handoff that is due waits for more cycles than it takes to work off the
\* others once each, and the claims that threw.
THEOREM HandoffsWaitTheirTurn ==
  ASSUME CycleLimit <= DueScanLimit
  PROVE  Spec => []WaitsItsTurn
  <1> DEFINE Inv == ReconciliationTypeOK /\ ListingIs /\ Turn
  <1>1. Init => Inv
    <2> SUFFICES ASSUME Init PROVE Inv
      OBVIOUS
    <2>1. ReconciliationTypeOK
      BY InitInvariant DEF ReconciliationInv
    <2>2. ListingIs /\ Turn
      BY DEF Init, NoCycle, ListingIs, Turn
    <2> QED BY <2>1, <2>2
  <1>2. Inv /\ [Next]_vars => Inv'
    BY TypeStep, ListingStep, TurnStep
  <1>3. Inv => WaitsItsTurn
    <2> SUFFICES ASSUME Inv, NEW h \in Handoffs
                 PROVE  passedOver[h] * CycleLimit
                          <= Cardinality(Handoffs) - 1 + errors
      BY DEF WaitsItsTurn
    <2>1. /\ passedOver[h] * CycleLimit \in Nat /\ cycle.attempted \in Nat
          /\ passedOver[h] \in Nat /\ CycleLimit \in Nat /\ errors \in Nat
      BY AttemptsAre
    <2>2. /\ Cardinality(Passed(h)) \in Nat /\ Cardinality(Handoffs) \in Nat
          /\ Cardinality(Passed(h)) <= Cardinality(Handoffs) - 1
      BY OthersCount DEF Passed
    <2>3. CASE passedOver[h] = 0
      <3>1. passedOver[h] * CycleLimit = 0
        BY <2>1, <2>3
      <3> QED BY <2>1, <2>2, <3>1
    <2>4. CASE passedOver[h] # 0
      <3>1. Attempts(h) <= Cardinality(Passed(h)) + errors
        BY <2>4 DEF Turn
      <3>2. /\ passedOver[h] * CycleLimit <= Attempts(h)
            /\ Attempts(h) \in Nat
        BY <2>1 DEF Attempts
      <3> QED BY <2>1, <2>2, <3>1, <3>2
    <2> QED BY <2>3, <2>4
  <1> HIDE DEF Inv
  <1> QED BY <1>1, <1>2, <1>3, PTL DEF Spec

-----------------------------------------------------------------------------
(* The worklist of a cleaner.                                              *)

Before(x, S) == {y \in S : Precedes(y, x)}

\* Whoever comes before a predecessor is a predecessor, but not itself.
LEMMA BeforeShrinks ==
  ASSUME NEW S, S \subseteq Nat \X Nat, NEW x \in S, NEW y \in Before(x, S)
  PROVE  Before(y, S) \subseteq Before(x, S) /\ Before(y, S) # Before(x, S)
  <1>1. y \in S /\ Precedes(y, x)
    BY DEF Before
  <1>2. /\ x \in Nat \X Nat /\ y \in Nat \X Nat
    BY <1>1
  <1>3. \A z \in S : Precedes(z, y) => Precedes(z, x)
    <2> SUFFICES ASSUME NEW z \in S, Precedes(z, y) PROVE Precedes(z, x)
      OBVIOUS
    <2>1. z[1] \in Nat /\ y[1] \in Nat /\ x[1] \in Nat
          /\ z[2] \in Nat /\ y[2] \in Nat /\ x[2] \in Nat
      BY <1>2
    <2> QED BY <1>1, <2>1 DEF Precedes
  <1>4. ~Precedes(y, y)
    BY <1>2 DEF Precedes
  <1> QED BY <1>1, <1>3, <1>4 DEF Before

\* A cleaner with work left has a first candidate, which is part of its work.
LEMMA FirstExists ==
  ASSUME NEW S, S \subseteq Nat \X Nat, S # {}, IsFiniteSet(S)
  PROVE  First(1, S) # {} /\ First(1, S) \subseteq S
  <1> DEFINE Prefixes == {Before(x, S) : x \in S}
  <1>1. Prefixes \subseteq FiniteSubsetsOf(S) /\ Prefixes # {}
    <2>1. \A x \in S : Before(x, S) \in SUBSET S
      BY DEF Before
    <2>2. FiniteSubsetsOf(S) = SUBSET S
      BY FS_FiniteSubsetsOfFinite
    <2> QED BY <2>1, <2>2
  <1>2. PICK B \in Prefixes :
          \A C \in Prefixes : ~(<<C, B>> \in StrictSubsetOrdering(S))
    <2>1. IsWellFoundedOn(StrictSubsetOrdering(S), FiniteSubsetsOf(S))
      BY FS_StrictSubsetOrderingWellFounded
    <2> HIDE DEF Prefixes
    <2> QED BY <1>1, <2>1, WFMin
  <1>3. PICK x \in S : B = Before(x, S)
    BY <1>2
  <1>4. Before(x, S) = {}
    <2> SUFFICES ASSUME NEW y \in Before(x, S) PROVE FALSE
      OBVIOUS
    <2>1. y \in S /\ Before(y, S) \in Prefixes
      BY DEF Before
    <2>2. Before(y, S) \subseteq Before(x, S) /\ Before(y, S) # Before(x, S)
      BY BeforeShrinks
    <2>3. <<Before(y, S), B>> \in StrictSubsetOrdering(S)
      BY <1>3, <2>2 DEF StrictSubsetOrdering, Before
    <2> QED BY <1>2, <2>1, <2>3
  <1>5. Cardinality({y \in S : Precedes(y, x)}) = 0
    BY <1>4, FS_EmptySet DEF Before
  <1>6. x \in First(1, S)
    BY <1>5 DEF First
  <1> QED BY <1>6 DEF First

-----------------------------------------------------------------------------
(* Windows.                                                                *)

\* A window covers the times from its begin up to that of the next.
LEMMA WindowBounds ==
  ASSUME NEW W \in Nat \ {0}, NEW t \in Nat
  PROVE  /\ t \div W \in Nat
         /\ W * (t \div W) <= t
         /\ t < W * (t \div W) + W
  OBVIOUS

\* Later times lie in later windows.
LEMMA WindowsOrdered ==
  ASSUME NEW W \in Nat \ {0}, NEW t \in Nat, NEW u \in Nat, t <= u
  PROVE  t \div W <= u \div W
  OBVIOUS

-----------------------------------------------------------------------------
(* The inductive invariant.                                                *)

\* A start commits in the tick its command was built in, or in the next.
CommandsFresh == \A cmd \in commands : cmd.at <= now /\ now <= cmd.at + 1

\* A bucket counts what it admitted until its window is long over.
BucketsCount ==
    \A b \in Scopes \X Windows :
      /\ admitted[b] <= Limit
      /\ count[b] = admitted[b] \/ now >= (b[2] + 2) * Window

\* What was terminal once never becomes terminal a second time.
TerminalSettled == \A r \in Runs : run[r].state = "terminal" => r \in settled

\* A cleaner works on a run that was terminal when it read it, and when it is
\* about to delete the root of a run that still is, no channel is left.
Working(c) == cleaner[c].pc \in {"list", "delete", "recheck", "root"}

CleanersFollow ==
    \A c \in Cleaners :
      /\ cleaner[c].at <= now
      /\ Working(c) => cleaner[c].todo # {} /\ Target(c) \in settled
      /\ At(c, "root") /\ run[Target(c)].state = "terminal"
           => channels[Target(c)] = {}

-----------------------------------------------------------------------------
(* Types.                                                                  *)

\* The bounds one by one.
LEMMA Bounds ==
  /\ Limit \in Nat \ {0} /\ Window \in Nat \ {0} /\ Lifetime \in Nat \ {0}
  /\ Horizon \in Nat /\ MaxCutOffs \in Nat
  /\ Runs \subseteq Nat
  <1>1. /\ {Limit, Window, Lifetime, ScanLimit, ProcessLimit, BatchSize}
             \subseteq Nat \ {0}
        /\ {Horizon, MaxCommands, MaxCutOffs} \subseteq Nat
        /\ Runs \subseteq Nat
    BY RetentionAssumption
  <1> QED BY <1>1

\* Documents are ordered by naturals, of which there are finitely many.
LEMMA WorkIsFinite ==
  ASSUME NEW S, S \subseteq Times \X Runs
  PROVE  S \subseteq Nat \X Nat /\ IsFiniteSet(S)
  <1>1. Horizon + Lifetime \in Nat /\ Runs \subseteq Nat
    BY Bounds
  <1>2. IsFiniteSet(Times \X Runs)
    <2>1. IsFiniteSet(Times)
      BY <1>1, FS_Interval DEF Times
    <2> QED BY <2>1, RetentionAssumption, FS_Product
  <1>3. Times \subseteq Nat
    BY <1>1 DEF Times
  <1>4. S \subseteq Nat \X Nat
    BY <1>1, <1>3
  <1> QED BY <1>2, <1>4, FS_Subset

\* The target of a cleaner is one of the runs it has left to do.
LEMMA TargetIsRun ==
  ASSUME RetentionTypeOK, NEW c \in Cleaners, cleaner[c].todo # {}
  PROVE  Candidate(c) \in cleaner[c].todo /\ Target(c) \in Runs
  <1> DEFINE S == cleaner[c].todo
  <1>1. S \subseteq Times \X Runs
    BY DEF RetentionTypeOK, CleanerStates
  <1>2. First(1, S) # {} /\ First(1, S) \subseteq S
    BY <1>1, WorkIsFinite, FirstExists
  <1>3. Candidate(c) \in S
    BY <1>2 DEF Candidate
  <1> QED BY <1>1, <1>3 DEF Target

\* What a query finds has the type of a worklist.
LEMMA WorklistTypes ==
  ASSUME RetentionTypeOK, NEW time
  PROVE  Worklist(time) \subseteq Times \X Runs
  <1>1. Expired(time) \subseteq Times \X Runs
    BY DEF Expired, RetentionTypeOK, RunDocuments
  <1> QED BY <1>1 DEF Worklist, First

\* A cleaner that rests.
LEMMA IdleTypes ==
  /\ IdleCleaner \in CleanerStates /\ IdleCleaner.pc = "idle"
  /\ IdleCleaner.at = 0 /\ NoRun \in RunDocuments
  <1>1. NoRun \in RunDocuments
    BY RetentionAssumption DEF NoRun, RunDocuments, Times
  <1> QED BY <1>1, RetentionAssumption DEF IdleCleaner, CleanerStates

\* The clock, the times of commands and the windows are where their types say.
LEMMA CommandTypes ==
  ASSUME RetentionTypeOK, NEW cmd \in commands
  PROVE  /\ cmd.run \in Runs /\ cmd.at \in 0..Horizon /\ cmd.at \in Nat
         /\ cmd.at \div Window \in Windows
         /\ Buckets(cmd) \subseteq Scopes \X Windows
         /\ cmd.at + Lifetime \in Times
  <1>1. /\ cmd.run \in Runs /\ cmd.at \in 0..Horizon
        /\ cmd.network \in Networks
    BY DEF RetentionTypeOK, Commands
  <1>2. cmd.at \in Nat /\ ClientOf[cmd.run] \in Clients
    <2>1. ClientOf \in [Runs -> Clients]
      BY RetentionAssumption
    <2> QED BY <1>1, <2>1
  <1>3. cmd.at \div Window \in Windows
    BY <1>1, <1>2, Bounds, WindowBounds, WindowsOrdered DEF Windows
  <1>4. cmd.at + Lifetime \in Times
    BY <1>1, <1>2, Bounds DEF Times
  <1> QED BY <1>1, <1>2, <1>3, <1>4 DEF Buckets, Scopes

\* What a step of a cleaner leaves of all cleaners.
CleanerAt(c) == /\ cleaner' \in [Cleaners -> CleanerStates]
                /\ \A d \in Cleaners \ {c} : cleaner'[d] = cleaner[d]

LEMMA CleanerGoes ==
  ASSUME RetentionTypeOK, NEW c \in Cleaners,
         NEW pc \in {"recheck", "root"}, Goto(c, pc)
  PROVE  /\ CleanerAt(c) /\ cleaner'[c].pc = pc
         /\ cleaner'[c].at = cleaner[c].at /\ cleaner'[c].todo = cleaner[c].todo
  BY ZenonT(30) DEF RetentionTypeOK, Goto, CleanerAt, CleanerStates

LEMMA CleanerNext ==
  ASSUME RetentionTypeOK, NEW c \in Cleaners, NextCandidate(c)
  PROVE  /\ CleanerAt(c) /\ cleaner'[c].pc = "next"
         /\ cleaner'[c].at = cleaner[c].at
  <1> DEFINE state == [IdleCleaner EXCEPT
                         !.pc = "next", !.at = cleaner[c].at,
                         !.todo = cleaner[c].todo \ {Candidate(c)}]
  <1>1. /\ cleaner[c].at \in 0..Horizon
        /\ cleaner[c].todo \ {Candidate(c)} \in SUBSET (Times \X Runs)
    BY DEF RetentionTypeOK, CleanerStates
  <1>2. /\ state \in CleanerStates /\ state.pc = "next"
        /\ state.at = cleaner[c].at
    BY <1>1, IdleTypes DEF CleanerStates
  <1>3. cleaner' = [cleaner EXCEPT ![c] = state]
    BY DEF NextCandidate
  <1> HIDE DEF state
  <1> QED BY <1>2, <1>3 DEF RetentionTypeOK, CleanerAt

LEMMA CleanerScans ==
  ASSUME RetentionTypeOK, NEW c \in Cleaners, CycleScans(c)
  PROVE  /\ CleanerAt(c) /\ cleaner'[c].pc = "next" /\ cleaner'[c].at = now
  <1> DEFINE state == [IdleCleaner EXCEPT !.pc = "next", !.at = now,
                                          !.todo = Worklist(now)]
  <1>1. now \in 0..Horizon /\ Worklist(now) \in SUBSET (Times \X Runs)
    BY WorklistTypes DEF RetentionTypeOK
  <1>2. state \in CleanerStates /\ state.pc = "next" /\ state.at = now
    BY <1>1, IdleTypes DEF CleanerStates
  <1>3. cleaner' = [cleaner EXCEPT ![c] = state]
    BY DEF CycleScans
  <1> HIDE DEF state
  <1> QED BY <1>2, <1>3 DEF RetentionTypeOK, CleanerAt

LEMMA CleanerEnds ==
  ASSUME RetentionTypeOK, NEW c \in Cleaners, CycleEnds(c) \/ CycleIsCutOff(c)
  PROVE  /\ CleanerAt(c) /\ cleaner'[c] = IdleCleaner
  BY IdleTypes DEF RetentionTypeOK, CycleEnds, CycleIsCutOff, CleanerAt

LEMMA CleanerLoads ==
  ASSUME RetentionTypeOK, NEW c \in Cleaners, StepLoadsPlan(c)
  PROVE  /\ CleanerAt(c) /\ cleaner'[c].pc = "list"
         /\ cleaner'[c].at = cleaner[c].at /\ cleaner'[c].todo = cleaner[c].todo
  <1> DEFINE state == [cleaner[c] EXCEPT !.pc = "list", !.plan = run[Target(c)]]
  <1>1. run[Target(c)] \in RunDocuments
    BY TargetIsRun DEF StepLoadsPlan, RetentionTypeOK
  <1>2. /\ cleaner \in [Cleaners -> CleanerStates]
        /\ cleaner[c] \in CleanerStates
    BY DEF RetentionTypeOK
  <1>3. /\ state \in CleanerStates /\ state.pc = "list"
        /\ state.at = cleaner[c].at /\ state.todo = cleaner[c].todo
    BY <1>1, <1>2 DEF CleanerStates
  <1>4. cleaner' = [cleaner EXCEPT ![c] = state]
    BY DEF StepLoadsPlan
  <1> HIDE DEF state
  <1> QED BY <1>2, <1>3, <1>4 DEF CleanerAt

LEMMA CleanerLists ==
  ASSUME RetentionTypeOK, NEW c \in Cleaners, cleaner[c].todo # {}, StepLists(c)
  PROVE  /\ CleanerAt(c) /\ cleaner'[c].pc = "delete"
         /\ cleaner'[c].at = cleaner[c].at /\ cleaner'[c].todo = cleaner[c].todo
  <1>1. channels[Target(c)] \subseteq Channels
    BY TargetIsRun DEF RetentionTypeOK
  <1>2. PICK batch \in SUBSET channels[Target(c)] :
          cleaner' = [cleaner EXCEPT ![c].pc = "delete", ![c].batch = batch]
    BY DEF StepLists
  <1> DEFINE state == [cleaner[c] EXCEPT !.pc = "delete", !.batch = batch]
  <1>3. batch \in SUBSET Channels
    BY <1>1
  <1>4. /\ cleaner \in [Cleaners -> CleanerStates]
        /\ cleaner[c] \in CleanerStates
    BY DEF RetentionTypeOK
  <1>5. /\ state \in CleanerStates /\ state.pc = "delete"
        /\ state.at = cleaner[c].at /\ state.todo = cleaner[c].todo
    BY <1>3, <1>4 DEF CleanerStates
  <1>6. cleaner' = [cleaner EXCEPT ![c] = state]
    BY <1>2
  <1> HIDE DEF state
  <1> QED BY <1>4, <1>5, <1>6 DEF CleanerAt

\* What charging makes of a ledger.
LEMMA ChargeEffect ==
  ASSUME NEW B, NEW f \in [B -> Nat], NEW cmd
  PROVE  /\ Charge(f, cmd) \in [B -> Nat]
         /\ \A b \in B : Charge(f, cmd)[b] =
              IF b \in Buckets(cmd) THEN f[b] + 1 ELSE f[b]
  BY DEF Charge

\* Before the first start the state is of its type.
LEMMA RetentionInitTypes == RetentionInit => RetentionTypeOK
  <1> SUFFICES ASSUME RetentionInit PROVE RetentionTypeOK
    OBVIOUS
  <1>1. NoRun \in RunDocuments /\ IdleCleaner \in CleanerStates
    BY IdleTypes
  <1>2. /\ now \in 0..Horizon /\ cutOffs \in 0..MaxCutOffs
        /\ count \in [Scopes \X Windows -> 0..Limit]
        /\ admitted \in [Scopes \X Windows -> Nat]
    BY Bounds DEF RetentionInit
  <1> QED BY <1>1, <1>2 DEF RetentionInit, RetentionTypeOK

\* No step stores a value of another type; above all, no bucket counts past
\* its limit.
LEMMA RetentionTypesPreserved ==
  ASSUME RetentionTypeOK, CleanersFollow, [RetentionNext]_retentionVars
  PROVE  RetentionTypeOK'
  <1>1. ASSUME NEW r \in Runs, NEW n \in Networks, BuildCommand(r, n)
        PROVE  RetentionTypeOK'
    <2>1. [run |-> r, network |-> n, at |-> now] \in Commands
      BY DEF Commands, RetentionTypeOK
    <2> QED
      BY <1>1, <2>1 DEF BuildCommand, RetentionTypeOK, cleanerVars
  <1>2. ASSUME NEW cmd \in commands, StartCreates(cmd) PROVE RetentionTypeOK'
    <2>1. count \in [Scopes \X Windows -> Nat]
      BY Bounds DEF RetentionTypeOK
    <2>2. count' \in [Scopes \X Windows -> 0..Limit]
      <3>1. \A b \in Scopes \X Windows : Charge(count, cmd)[b] \in 0..Limit
        BY <1>2, <2>1, ChargeEffect, Bounds
        DEF StartCreates, Admissible, RetentionTypeOK
      <3> QED BY <1>2, <2>1, <3>1, ChargeEffect DEF StartCreates
    <2>3. admitted' \in [Scopes \X Windows -> Nat]
      BY <1>2, ChargeEffect DEF StartCreates, RetentionTypeOK
    <2>4. run' \in [Runs -> RunDocuments]
      BY <1>2, CommandTypes DEF StartCreates, RetentionTypeOK, RunDocuments
    <2> QED
      BY <1>2, <2>2, <2>3, <2>4 DEF StartCreates, RetentionTypeOK, cleanerVars
  <1>3. ASSUME NEW cmd \in commands, StartWritesNothing(cmd) \/ StartIsCutOff(cmd)
        PROVE  RetentionTypeOK'
    BY <1>3 DEF StartWritesNothing, StartIsCutOff, RetentionTypeOK, cleanerVars
  <1>4. ASSUME NEW r \in Runs, RunFails(r) PROVE RetentionTypeOK'
    BY <1>4 DEF RunFails, RetentionTypeOK, RunDocuments, startVars, cleanerVars
  <1>5. ASSUME NEW b \in Scopes \X Windows, PurgeBucket(b) PROVE RetentionTypeOK'
    BY <1>5, Bounds DEF PurgeBucket, RetentionTypeOK, cleanerVars
  <1>6. ASSUME NEW c \in Cleaners, CleanerStep(c) PROVE RetentionTypeOK'
    <2>1. CleanerAt(c)
      <3>1. CASE StepLists(c)
        BY <3>1, CleanerLists DEF StepLists, CleanersFollow, Working, At
      <3> QED
        BY <1>6, <3>1, CleanerScans, CleanerLoads, CleanerNext, CleanerGoes,
           CleanerEnds
        DEF CleanerStep, StepSkips, StepDeletesBatch, StepFindsNothing,
            StepRechecks, StepDeletesRoot
    <2>2. run' \in [Runs -> RunDocuments]
      BY <1>6, IdleTypes
      DEF CleanerStep, CycleScans, StepLoadsPlan, StepSkips, StepLists,
          StepDeletesBatch, StepFindsNothing, StepRechecks, StepDeletesRoot,
          CycleEnds, RetentionTypeOK
    <2>3. channels' \in [Runs -> SUBSET Channels]
      BY <1>6
      DEF CleanerStep, CycleScans, StepLoadsPlan, StepSkips, StepLists,
          StepDeletesBatch, StepFindsNothing, StepRechecks, StepDeletesRoot,
          CycleEnds, RetentionTypeOK
    <2>4. due' \subseteq Cleaners /\ UNCHANGED <<now, settled, startVars, cutOffs>>
      BY <1>6
      DEF CleanerStep, CycleScans, StepLoadsPlan, StepSkips, StepLists,
          StepDeletesBatch, StepFindsNothing, StepRechecks, StepDeletesRoot,
          CycleEnds, RetentionTypeOK, NextCandidate, Goto
    <2> QED
      BY <2>1, <2>2, <2>3, <2>4 DEF RetentionTypeOK, CleanerAt, startVars
  <1>7. ASSUME NEW c \in Cleaners, CycleIsCutOff(c) PROVE RetentionTypeOK'
    <2>1. cutOffs' \in 0..MaxCutOffs
      BY <1>7, Bounds DEF CycleIsCutOff, RetentionTypeOK
    <2> QED
      BY <1>7, <2>1, CleanerEnds
      DEF CycleIsCutOff, RetentionTypeOK, CleanerAt, startVars
  <1>8. CASE Tick
    <2>1. now' \in 0..Horizon
      BY <1>8, Bounds DEF Tick, RetentionTypeOK
    <2> QED BY <1>8, <2>1 DEF Tick, RetentionTypeOK, startVars
  <1>9. CASE UNCHANGED retentionVars
    BY <1>9 DEF retentionVars, startVars, cleanerVars, RetentionTypeOK
  <1> QED
    BY <1>1, <1>2, <1>3, <1>4, <1>5, <1>6, <1>7, <1>8, <1>9
    DEF RetentionNext, StartStep

-----------------------------------------------------------------------------
(* Windows and their limits.                                               *)

\* The steps that charge no bucket, purge none and move no clock.
LEMMA BucketsQuiet ==
  ASSUME BucketsCount, UNCHANGED <<now, count, admitted>>
  PROVE  BucketsCount'
  BY DEF BucketsCount

\* A command is committed while the bucket of its window cannot be purged yet.
LEMMA CommandBeforePurge ==
  ASSUME RetentionTypeOK, CommandsFresh, NEW cmd \in commands,
         NEW b \in Buckets(cmd)
  PROVE  ~(now >= (b[2] + 2) * Window)
  <1> DEFINE w == cmd.at \div Window
  <1>1. b[2] = w
    BY DEF Buckets
  <1>2. cmd.at \in Nat /\ Window \in Nat \ {0} /\ now \in Nat
    BY CommandTypes, Bounds DEF RetentionTypeOK
  <1>3. now <= cmd.at + 1
    BY DEF CommandsFresh
  <1>4. w \in Nat /\ cmd.at < Window * w + Window
    BY <1>2, WindowBounds
  <1> HIDE DEF w
  <1>5. now <= Window * w + Window
    BY <1>2, <1>3, <1>4
  <1>6. (w + 2) * Window = Window * w + Window + Window
    BY <1>2, <1>4
  <1>7. Window * w \in Nat
    BY <1>2, <1>4
  <1> QED BY <1>1, <1>2, <1>5, <1>6, <1>7

\* Commands stay fresh and buckets keep counting.
LEMMA BucketsPreserved ==
  ASSUME RetentionTypeOK, CommandsFresh, BucketsCount,
         [RetentionNext]_retentionVars
  PROVE  CommandsFresh' /\ BucketsCount'
  <1>0. now \in Nat /\ \A cmd \in commands : cmd.at \in Nat
    BY CommandTypes, Bounds DEF RetentionTypeOK
  <1>1. ASSUME NEW r \in Runs, NEW n \in Networks, BuildCommand(r, n)
        PROVE  CommandsFresh' /\ BucketsCount'
    BY <1>0, <1>1, BucketsQuiet DEF BuildCommand, CommandsFresh
  <1>2. ASSUME NEW cmd \in commands, StartCreates(cmd)
        PROVE  CommandsFresh' /\ BucketsCount'
    <2>1. CommandsFresh'
      BY <1>2 DEF StartCreates, CommandsFresh
    <2>2. ASSUME NEW b \in Scopes \X Windows
          PROVE  /\ admitted'[b] <= Limit
                 /\ count'[b] = admitted'[b] \/ now' >= (b[2] + 2) * Window
      <3>1. /\ admitted[b] <= Limit
            /\ count[b] = admitted[b] \/ now >= (b[2] + 2) * Window
            /\ count[b] \in 0..Limit /\ admitted[b] \in Nat /\ Limit \in Nat
        BY Bounds DEF BucketsCount, RetentionTypeOK
      <3>2. /\ count \in [Scopes \X Windows -> Nat]
            /\ admitted \in [Scopes \X Windows -> Nat]
        BY Bounds DEF RetentionTypeOK
      <3>3. /\ count'[b] = IF b \in Buckets(cmd) THEN count[b] + 1 ELSE count[b]
            /\ admitted'[b] = IF b \in Buckets(cmd) THEN admitted[b] + 1
                                                     ELSE admitted[b]
        BY <1>2, <3>2, ChargeEffect DEF StartCreates
      <3>4. CASE b \in Buckets(cmd)
        <4>1. count[b] = admitted[b]
          BY <3>1, <3>4, CommandBeforePurge
        <4>2. count[b] < Limit
          BY <1>2, <3>4 DEF StartCreates, Admissible
        <4> QED BY <3>1, <3>3, <3>4, <4>1, <4>2
      <3>5. CASE b \notin Buckets(cmd)
        BY <1>2, <3>1, <3>3, <3>5 DEF StartCreates
      <3> QED BY <3>4, <3>5
    <2> QED BY <2>1, <2>2 DEF BucketsCount
  <1>3. ASSUME NEW cmd \in commands, StartWritesNothing(cmd) \/ StartIsCutOff(cmd)
        PROVE  CommandsFresh' /\ BucketsCount'
    BY <1>3, BucketsQuiet DEF StartWritesNothing, StartIsCutOff, CommandsFresh
  <1>4. ASSUME NEW b \in Scopes \X Windows, PurgeBucket(b)
        PROVE  CommandsFresh' /\ BucketsCount'
    BY <1>4 DEF PurgeBucket, CommandsFresh, BucketsCount, RetentionTypeOK
  <1>5. CASE Tick
    <2>1. CommandsFresh'
      BY <1>0, <1>5 DEF Tick, CommandsFresh, startVars
    <2>2. now <= now' /\ now' \in Nat
      BY <1>0, <1>5 DEF Tick
    <2>3. \A b \in Scopes \X Windows : (b[2] + 2) * Window \in Nat
      <3> SUFFICES ASSUME NEW b \in Scopes \X Windows
                   PROVE  (b[2] + 2) * Window \in Nat
        OBVIOUS
      <3>1. b[2] \in Nat /\ Window \in Nat
        BY Bounds DEF Windows
      <3> QED BY <3>1
    <2>4. BucketsCount'
      BY <1>0, <1>5, <2>2, <2>3 DEF Tick, BucketsCount, startVars
    <2> QED BY <2>1, <2>4
  <1>6. ASSUME \/ \E r \in Runs : RunFails(r)
               \/ \E c \in Cleaners : CleanerStep(c) \/ CycleIsCutOff(c)
               \/ UNCHANGED retentionVars
        PROVE  CommandsFresh' /\ BucketsCount'
    <2>1. UNCHANGED <<now, startVars>>
      BY <1>6
      DEF RunFails, CleanerStep, CycleScans, StepLoadsPlan, StepSkips, StepLists,
          StepDeletesBatch, StepFindsNothing, StepRechecks, StepDeletesRoot,
          CycleEnds, CycleIsCutOff, retentionVars
    <2> QED BY <2>1, BucketsQuiet DEF startVars, CommandsFresh
  <1> QED
    BY <1>1, <1>2, <1>3, <1>4, <1>5, <1>6 DEF RetentionNext, StartStep

-----------------------------------------------------------------------------
(* Deletions.                                                              *)

\* A step that leaves one run alone, or makes it no terminal one, and adds no
\* channel to it, keeps what a cleaner that does not move knows about it.
Harmless(r) ==
    \/ run'[r].state # "terminal"
    \/ run'[r].state = run[r].state /\ channels'[r] \subseteq channels[r]

LEMMA FollowsQuiet ==
  ASSUME RetentionTypeOK, CleanersFollow, NEW c \in Cleaners,
         cleaner'[c] = cleaner[c], now <= now', now' \in Nat,
         settled \subseteq settled',
         \A r \in settled : Harmless(r)
  PROVE  /\ cleaner'[c].at <= now'
         /\ Working(c)' => cleaner'[c].todo # {} /\ Target(c)' \in settled'
         /\ At(c, "root")' /\ run'[Target(c)'].state = "terminal"
              => channels'[Target(c)'] = {}
  <1>1. Target(c)' = Target(c)
    BY DEF Target, Candidate, First, Precedes
  <1>2. cleaner[c].at <= now /\ cleaner[c].at \in Nat /\ now \in Nat
    BY Bounds DEF CleanersFollow, RetentionTypeOK, CleanerStates
  <1>3. Working(c) => cleaner[c].todo # {} /\ Target(c) \in settled
    BY DEF CleanersFollow
  <1>4. At(c, "root") /\ run[Target(c)].state = "terminal"
          => channels[Target(c)] = {}
    BY DEF CleanersFollow
  <1>5. At(c, "root") => Harmless(Target(c))
    BY <1>3 DEF At, Working
  <1> QED
    BY <1>1, <1>2, <1>3, <1>4, <1>5 DEF Working, At, Harmless

\* What cleaners do to runs and channels: take channels away, or the root of a
\* run that was terminal and had none left.
LEMMA CleanerDeletes ==
  ASSUME RetentionTypeOK, CleanersFollow, NEW c \in Cleaners, CleanerStep(c)
  PROVE  /\ UNCHANGED <<now, settled>>
         /\ \A r \in Runs : channels'[r] \subseteq channels[r]
         /\ \A r \in Runs : \/ run'[r] = run[r]
                           \/ /\ run'[r].state = "absent"
                              /\ run[r].state = "terminal"
                              /\ run[r].expiresAt <= cleaner[c].at
                              /\ channels'[r] = {}
  <1>1. CASE StepDeletesRoot(c)
    <2>1. UNCHANGED <<now, settled, channels>>
      BY <1>1 DEF StepDeletesRoot
    <2>2. ASSUME NEW r \in Runs, run'[r] # run[r]
          PROVE  /\ r = Target(c) /\ Cleanable(c, Target(c))
                 /\ run'[r] = NoRun
      BY <1>1, <2>2 DEF StepDeletesRoot, RetentionTypeOK
    <2>3. Cleanable(c, Target(c)) => channels[Target(c)] = {}
      BY <1>1 DEF StepDeletesRoot, CleanersFollow, Cleanable
    <2> QED BY <2>1, <2>2, <2>3 DEF Cleanable, NoRun
  <1>2. CASE StepDeletesBatch(c)
    BY <1>2 DEF StepDeletesBatch, RetentionTypeOK
  <1>3. CASE ~StepDeletesRoot(c) /\ ~StepDeletesBatch(c)
    BY <1>3
    DEF CleanerStep, CycleScans, StepLoadsPlan, StepSkips, StepLists,
        StepFindsNothing, StepRechecks, CycleEnds
  <1> QED BY <1>1, <1>2, <1>3

\* The cleaner that moves still follows the run it works on.
LEMMA CleanerFollows ==
  ASSUME RetentionTypeOK, CleanersFollow, TerminalSettled,
         NEW c \in Cleaners, CleanerStep(c) \/ CycleIsCutOff(c)
  PROVE  /\ cleaner'[c].at <= now'
         /\ Working(c)' => cleaner'[c].todo # {} /\ Target(c)' \in settled'
         /\ At(c, "root")' /\ run'[Target(c)'].state = "terminal"
              => channels'[Target(c)'] = {}
  <1> DEFINE Goal ==
        /\ cleaner'[c].at <= now'
        /\ Working(c)' => cleaner'[c].todo # {} /\ Target(c)' \in settled'
        /\ At(c, "root")' /\ run'[Target(c)'].state = "terminal"
             => channels'[Target(c)'] = {}
  <1>1. /\ cleaner[c].at <= now /\ now \in Nat
        /\ Working(c) => cleaner[c].todo # {} /\ Target(c) \in settled
    BY Bounds DEF CleanersFollow, RetentionTypeOK
  <1>2. UNCHANGED <<now, settled>>
    BY CleanerDeletes DEF CycleIsCutOff
  <1>3. ASSUME cleaner'[c].pc \in {"idle", "next"}, cleaner'[c].at <= now
        PROVE  Goal
    BY <1>2, <1>3 DEF Working, At
  <1>4. ASSUME cleaner'[c].todo = cleaner[c].todo PROVE Target(c)' = Target(c)
    BY <1>4 DEF Target, Candidate, First, Precedes
  <1>5. CASE CycleScans(c)
    BY <1>1, <1>3, <1>5, CleanerScans
  <1>6. CASE CycleEnds(c) \/ CycleIsCutOff(c)
    BY <1>1, <1>3, <1>6, CleanerEnds, IdleTypes
  <1>7. CASE StepSkips(c) \/ StepDeletesBatch(c) \/ StepDeletesRoot(c)
    BY <1>1, <1>3, <1>7, CleanerNext DEF StepSkips, StepDeletesBatch, StepDeletesRoot
  <1>8. CASE StepLoadsPlan(c)
    <2>1. cleaner[c].todo # {} /\ Target(c) \in settled
      BY <1>8, TargetIsRun DEF StepLoadsPlan, Cleanable, TerminalSettled
    <2> QED
      BY <1>1, <1>2, <1>4, <1>8, <2>1, CleanerLoads DEF Working, At
  <1>9. CASE StepLists(c)
    <2>1. cleaner[c].todo # {} /\ Target(c) \in settled
      BY <1>1, <1>9 DEF StepLists, At, Working
    <2> QED
      BY <1>1, <1>2, <1>4, <1>9, <2>1, CleanerLists DEF Working, At
  <1>10. CASE StepFindsNothing(c)
    <2>1. cleaner[c].todo # {} /\ Target(c) \in settled
      BY <1>1, <1>10 DEF StepFindsNothing, At, Working
    <2>2. /\ cleaner'[c].pc = "recheck" /\ cleaner'[c].at = cleaner[c].at
          /\ cleaner'[c].todo = cleaner[c].todo
      BY <1>10, CleanerGoes DEF StepFindsNothing
    <2> QED BY <1>1, <1>2, <1>4, <2>1, <2>2 DEF Working, At
  <1>11. CASE StepRechecks(c)
    <2>1. cleaner[c].todo # {} /\ Target(c) \in settled
      BY <1>1, <1>11 DEF StepRechecks, At, Working
    <2>2. CASE channels[Target(c)] = {}
      <3>1. /\ cleaner'[c].pc = "root" /\ cleaner'[c].at = cleaner[c].at
            /\ cleaner'[c].todo = cleaner[c].todo /\ UNCHANGED channels
        BY <1>11, <2>2, CleanerGoes DEF StepRechecks
      <3> QED BY <1>1, <1>2, <1>4, <2>1, <2>2, <3>1 DEF Working, At
    <2>3. CASE channels[Target(c)] # {}
      BY <1>1, <1>3, <1>11, <2>3, CleanerNext DEF StepRechecks
    <2> QED BY <2>2, <2>3
  <1> QED
    BY <1>5, <1>6, <1>7, <1>8, <1>9, <1>10, <1>11 DEF CleanerStep

\* Starts, failures and cleaners keep the three invariants about deletions.
LEMMA DeletionsPreserved ==
  ASSUME RetentionTypeOK, CleanersFollow, TerminalSettled, ChannelsHaveTheirRun,
         [RetentionNext]_retentionVars
  PROVE  CleanersFollow' /\ TerminalSettled' /\ ChannelsHaveTheirRun'
  <1> DEFINE Goal == CleanersFollow' /\ TerminalSettled' /\ ChannelsHaveTheirRun'
  <1>1. settled \subseteq Runs /\ now \in Nat
    BY Bounds DEF RetentionTypeOK
  <1>2. ASSUME UNCHANGED cleaner, now <= now', now' \in Nat,
               settled \subseteq settled', \A r \in settled : Harmless(r)
        PROVE  CleanersFollow'
    <2> SUFFICES ASSUME NEW c \in Cleaners
                 PROVE  /\ cleaner'[c].at <= now'
                        /\ Working(c)' => cleaner'[c].todo # {}
                                          /\ Target(c)' \in settled'
                        /\ At(c, "root")' /\ run'[Target(c)'].state = "terminal"
                             => channels'[Target(c)'] = {}
      BY DEF CleanersFollow
    <2> QED BY <1>2, FollowsQuiet
  <1>3. ASSUME UNCHANGED <<run, channels, settled, cleaner>>,
               now <= now', now' \in Nat
        PROVE  Goal
    <2>1. CleanersFollow'
      BY <1>2, <1>3 DEF Harmless
    <2> QED BY <1>3, <2>1 DEF TerminalSettled, ChannelsHaveTheirRun
  <1>4. ASSUME NEW cmd \in commands, StartCreates(cmd) PROVE Goal
    <2>1. /\ run'[cmd.run].state = "open" /\ cmd.run \in Runs
          /\ \A r \in Runs \ {cmd.run} :
               run'[r] = run[r] /\ channels'[r] = channels[r]
          /\ UNCHANGED <<now, settled, cleaner>>
      BY <1>4, CommandTypes DEF StartCreates, RetentionTypeOK, cleanerVars
    <2>2. CleanersFollow'
      BY <1>1, <1>2, <2>1 DEF Harmless
    <2> QED BY <2>1, <2>2 DEF TerminalSettled, ChannelsHaveTheirRun
  <1>5. ASSUME NEW r \in Runs, RunFails(r) PROVE Goal
    <2>1. /\ run'[r].state = "terminal" /\ r \notin settled
          /\ settled' = settled \cup {r}
          /\ \A q \in Runs \ {r} : run'[q] = run[q]
          /\ UNCHANGED <<now, channels, cleaner>>
      BY <1>5 DEF RunFails, RetentionTypeOK, RunDocuments, cleanerVars
    <2>2. CleanersFollow'
      BY <1>1, <1>2, <2>1 DEF Harmless
    <2> QED BY <2>1, <2>2 DEF TerminalSettled, ChannelsHaveTheirRun
  <1>6. ASSUME NEW c \in Cleaners, CleanerStep(c) PROVE Goal
    <2>1. /\ UNCHANGED <<now, settled>> /\ \A r \in Runs : Harmless(r)
      BY <1>6, CleanerDeletes DEF Harmless
    <2>2. ASSUME NEW d \in Cleaners
          PROVE  /\ cleaner'[d].at <= now'
                 /\ Working(d)' => cleaner'[d].todo # {} /\ Target(d)' \in settled'
                 /\ At(d, "root")' /\ run'[Target(d)'].state = "terminal"
                      => channels'[Target(d)'] = {}
      <3>1. CASE d = c
        BY <1>6, <3>1, CleanerFollows
      <3>2. CASE d # c
        <4>1. cleaner'[d] = cleaner[d]
          BY <1>6, <3>2
          DEF CleanerStep, CycleScans, StepLoadsPlan, StepSkips, StepLists,
              StepDeletesBatch, StepFindsNothing, StepRechecks,
              StepDeletesRoot, CycleEnds, NextCandidate, Goto, RetentionTypeOK
        <4> QED BY <1>1, <2>1, <4>1, FollowsQuiet
      <3> QED BY <3>1, <3>2
    <2>3. CleanersFollow'
      BY <2>2 DEF CleanersFollow
    <2>4. TerminalSettled' /\ ChannelsHaveTheirRun'
      BY <1>6, CleanerDeletes DEF TerminalSettled, ChannelsHaveTheirRun
    <2> QED BY <2>3, <2>4
  <1>7. ASSUME NEW c \in Cleaners, CycleIsCutOff(c) PROVE Goal
    <2>1. UNCHANGED <<now, run, channels, settled>>
      BY <1>7 DEF CycleIsCutOff
    <2>2. \A d \in Cleaners \ {c} : cleaner'[d] = cleaner[d]
      BY <1>7, CleanerEnds DEF CleanerAt
    <2>3. ASSUME NEW d \in Cleaners
          PROVE  /\ cleaner'[d].at <= now'
                 /\ Working(d)' => cleaner'[d].todo # {} /\ Target(d)' \in settled'
                 /\ At(d, "root")' /\ run'[Target(d)'].state = "terminal"
                      => channels'[Target(d)'] = {}
      <3>1. CASE d = c
        BY <1>7, <3>1, CleanerFollows
      <3>2. CASE d # c
        BY <1>1, <2>1, <2>2, <3>2, FollowsQuiet DEF Harmless
      <3> QED BY <3>1, <3>2
    <2> QED
      BY <2>1, <2>3 DEF CleanersFollow, TerminalSettled, ChannelsHaveTheirRun
  <1>8. CASE Tick
    <2>1. now <= now' /\ now' \in Nat /\ UNCHANGED <<run, channels, settled, cleaner>>
      BY <1>1, <1>8 DEF Tick
    <2> QED BY <1>3, <2>1
  <1>9. ASSUME \/ \E r \in Runs, n \in Networks : BuildCommand(r, n)
               \/ \E cmd \in commands : StartWritesNothing(cmd) \/ StartIsCutOff(cmd)
               \/ \E b \in Scopes \X Windows : PurgeBucket(b)
               \/ UNCHANGED retentionVars
        PROVE  Goal
    <2>1. UNCHANGED <<now, run, channels, settled, cleaner>>
      BY <1>9
      DEF BuildCommand, StartWritesNothing, StartIsCutOff, PurgeBucket,
          retentionVars, cleanerVars
    <2> QED BY <1>1, <1>3, <2>1
  <1> QED
    BY <1>4, <1>5, <1>6, <1>7, <1>8, <1>9 DEF RetentionNext, StartStep

-----------------------------------------------------------------------------
(* One cleaner.                                                            *)

\* The scheduled function runs in one instance that takes one invocation at a
\* time (scheduledCleanupOptions: maxInstances 1, concurrency 1).
OneCleaner == \A c, d \in Cleaners : c = d

\* What the cleaner works on is terminal and has expired: no other cleaner
\* deletes the run, so that no replay creates it again.
CleanerHolds ==
    \A c \in Cleaners :
      /\ cleaner[c].at <= now
      /\ Working(c) =>
           /\ cleaner[c].todo # {}
           /\ run[Target(c)].state = "terminal"
           /\ run[Target(c)].expiresAt <= cleaner[c].at

\* Everything a step may do to a run that is terminal but for deleting it.
Terminal(r) == run[r].state = "terminal" => run'[r] = run[r]

LEMMA Ages ==
  ASSUME RetentionTypeOK
  PROVE  /\ now \in Nat /\ \A r \in Runs : run[r].expiresAt \in Nat
         /\ \A c \in Cleaners : cleaner[c].at \in Nat
  BY Bounds DEF RetentionTypeOK, RunDocuments, Times, CleanerStates

\* The steps of all but the cleaner leave terminal runs alone.
LEMMA OthersKeepTerminal ==
  ASSUME RetentionTypeOK, NEW r \in Runs,
         \/ \E q \in Runs, n \in Networks : BuildCommand(q, n)
         \/ \E cmd \in commands : StartStep(cmd) \/ StartIsCutOff(cmd)
         \/ \E q \in Runs : RunFails(q)
         \/ \E b \in Scopes \X Windows : PurgeBucket(b)
         \/ UNCHANGED retentionVars
  PROVE  Terminal(r) /\ UNCHANGED <<now, cleaner>>
  <1>1. ASSUME NEW cmd \in commands, StartCreates(cmd)
        PROVE  Terminal(r) /\ UNCHANGED <<now, cleaner>>
    BY <1>1, CommandTypes
    DEF StartCreates, Absent, Terminal, RetentionTypeOK, cleanerVars
  <1>2. ASSUME NEW q \in Runs, RunFails(q)
        PROVE  Terminal(r) /\ UNCHANGED <<now, cleaner>>
    BY <1>2 DEF RunFails, Terminal, RetentionTypeOK, cleanerVars
  <1> QED
    BY <1>1, <1>2
    DEF StartStep, BuildCommand, StartWritesNothing, StartIsCutOff, PurgeBucket,
        Terminal, retentionVars, cleanerVars

\* The cleaner itself holds on to its run until it is done with it.
LEMMA CleanerStepHolds ==
  ASSUME RetentionTypeOK, CleanerHolds, OneCleaner, NEW c \in Cleaners,
         CleanerStep(c) \/ CycleIsCutOff(c)
  PROVE  CleanerHolds'
  <1>1. /\ cleaner[c].at <= now /\ now \in Nat /\ cleaner[c].at \in Nat
        /\ Working(c) => /\ cleaner[c].todo # {}
                         /\ run[Target(c)].state = "terminal"
                         /\ run[Target(c)].expiresAt <= cleaner[c].at
    BY Ages DEF CleanerHolds
  <1>2. now' = now
    BY DEF CleanerStep, CycleScans, StepLoadsPlan, StepSkips, StepLists,
           StepDeletesBatch, StepFindsNothing, StepRechecks, StepDeletesRoot,
           CycleEnds, CycleIsCutOff
  <1> SUFFICES /\ cleaner'[c].at <= now
               /\ Working(c)' =>
                    /\ cleaner'[c].todo # {}
                    /\ run'[Target(c)'].state = "terminal"
                    /\ run'[Target(c)'].expiresAt <= cleaner'[c].at
    BY <1>2 DEF CleanerHolds, OneCleaner
  <1>3. CASE cleaner'[c].pc \in {"idle", "next"} /\ cleaner'[c].at <= now
    BY <1>3 DEF Working
  <1>4. CASE /\ cleaner'[c].at = cleaner[c].at
             /\ cleaner'[c].todo = cleaner[c].todo /\ cleaner[c].todo # {}
             /\ run' = run /\ Cleanable(c, Target(c))
    <2>1. Target(c)' = Target(c)
      BY <1>4 DEF Target, Candidate, First, Precedes
    <2> QED BY <1>1, <1>4, <2>1 DEF Cleanable
  <1>5. CASE CycleScans(c)
    BY <1>1, <1>3, <1>5, CleanerScans
  <1>6. CASE CycleEnds(c) \/ CycleIsCutOff(c)
    BY <1>1, <1>3, <1>6, CleanerEnds, IdleTypes
  <1>7. CASE StepSkips(c) \/ StepDeletesBatch(c) \/ StepDeletesRoot(c)
    BY <1>1, <1>3, <1>7, CleanerNext
    DEF StepSkips, StepDeletesBatch, StepDeletesRoot
  <1>8. CASE StepLoadsPlan(c)
    BY <1>4, <1>8, CleanerLoads DEF StepLoadsPlan
  <1>9. ASSUME Working(c) PROVE cleaner[c].todo # {} /\ Cleanable(c, Target(c))
    BY <1>1, <1>9 DEF Cleanable
  <1>10. CASE StepLists(c)
    <2>1. Working(c) /\ run' = run
      BY <1>10 DEF StepLists, At, Working
    <2> QED BY <1>4, <1>9, <1>10, <2>1, CleanerLists
  <1>11. CASE StepFindsNothing(c)
    <2>1. Working(c) /\ run' = run /\ Goto(c, "recheck")
      BY <1>11 DEF StepFindsNothing, At, Working
    <2> QED BY <1>4, <1>9, <2>1, CleanerGoes
  <1>12. CASE StepRechecks(c)
    <2>1. Working(c) /\ run' = run /\ (Goto(c, "root") \/ NextCandidate(c))
      BY <1>12 DEF StepRechecks, At, Working
    <2>2. CASE Goto(c, "root")
      BY <1>4, <1>9, <2>1, <2>2, CleanerGoes
    <2>3. CASE NextCandidate(c)
      BY <1>1, <1>3, <2>3, CleanerNext
    <2> QED BY <2>1, <2>2, <2>3
  <1> QED
    BY <1>5, <1>6, <1>7, <1>8, <1>10, <1>11, <1>12 DEF CleanerStep

LEMMA HoldsPreserved ==
  ASSUME RetentionTypeOK, CleanerHolds, OneCleaner, [RetentionNext]_retentionVars
  PROVE  CleanerHolds'
  <1>1. ASSUME NEW c \in Cleaners, CleanerStep(c) \/ CycleIsCutOff(c)
        PROVE  CleanerHolds'
    BY <1>1, CleanerStepHolds
  <1>2. CASE Tick
    <2>1. /\ now <= now' /\ UNCHANGED <<run, cleaner>>
          /\ \A c \in Cleaners : ~Working(c)
      BY <1>2, Ages DEF Tick, At, Working
    <2>2. now' \in Nat
      BY <1>2, Ages DEF Tick
    <2>3. \A c \in Cleaners : cleaner[c].at <= now' /\ ~Working(c)'
      BY <2>1, <2>2, Ages DEF CleanerHolds, Working
    <2> QED BY <2>1, <2>3 DEF CleanerHolds
  <1>3. ASSUME UNCHANGED <<now, cleaner>>, \A r \in Runs : Terminal(r)
        PROVE  CleanerHolds'
    <2> SUFFICES ASSUME NEW c \in Cleaners
                 PROVE  /\ cleaner'[c].at <= now'
                        /\ Working(c)' =>
                             /\ cleaner'[c].todo # {}
                             /\ run'[Target(c)'].state = "terminal"
                             /\ run'[Target(c)'].expiresAt <= cleaner'[c].at
      BY DEF CleanerHolds
    <2>1. Target(c)' = Target(c) /\ (Working(c)' <=> Working(c))
      BY <1>3 DEF Target, Candidate, First, Precedes, Working
    <2>2. Working(c) => Target(c) \in Runs
      BY TargetIsRun DEF CleanerHolds
    <2>3. Working(c) => run'[Target(c)] = run[Target(c)]
      BY <1>3, <2>2 DEF CleanerHolds, Terminal
    <2> QED BY <1>3, <2>1, <2>3 DEF CleanerHolds
  <1>4. ASSUME \/ \E q \in Runs, n \in Networks : BuildCommand(q, n)
               \/ \E cmd \in commands : StartStep(cmd) \/ StartIsCutOff(cmd)
               \/ \E q \in Runs : RunFails(q)
               \/ \E b \in Scopes \X Windows : PurgeBucket(b)
               \/ UNCHANGED retentionVars
        PROVE  CleanerHolds'
    <2>1. \A r \in Runs : Terminal(r)
      BY <1>4, OthersKeepTerminal
    <2>2. UNCHANGED <<now, cleaner>>
      BY <1>4
      DEF StartStep, StartCreates, BuildCommand, StartWritesNothing,
          StartIsCutOff, RunFails, PurgeBucket, retentionVars, cleanerVars
    <2> QED BY <1>3, <2>1, <2>2
  <1> QED BY <1>1, <1>2, <1>4 DEF RetentionNext

\* A run that has not to go.
Retained(r) ==
    run[r].state = "open" \/ (run[r].state = "terminal" /\ now < run[r].expiresAt)

LEMMA WholePreserved ==
  ASSUME RetentionTypeOK, CleanerHolds, RetainedRunsAreWhole,
         [RetentionNext]_retentionVars
  PROVE  RetainedRunsAreWhole'
  <1> SUFFICES ASSUME NEW r \in Runs, Retained(r)'
               PROVE  channels'[r] = Channels
    BY DEF RetainedRunsAreWhole, Retained
  <1>1. Retained(r) => channels[r] = Channels
    BY DEF RetainedRunsAreWhole, Retained
  <1>2. ASSUME NEW cmd \in commands, StartCreates(cmd)
        PROVE  channels'[r] = Channels
    BY <1>1, <1>2, CommandTypes DEF StartCreates, RetentionTypeOK, Retained
  <1>3. ASSUME NEW q \in Runs, RunFails(q)
        PROVE  channels'[r] = Channels
    BY <1>1, <1>3 DEF RunFails, Whole, RetentionTypeOK, Retained
  <1>4. ASSUME NEW c \in Cleaners, StepDeletesBatch(c)
        PROVE  channels'[r] = Channels
    <2>1. UNCHANGED <<now, run>>
      BY <1>4 DEF StepDeletesBatch
    <2>2. /\ cleaner[c].todo # {} /\ run[Target(c)].state = "terminal"
          /\ run[Target(c)].expiresAt <= cleaner[c].at
          /\ cleaner[c].at <= now
      BY <1>4 DEF StepDeletesBatch, CleanerHolds, At, Working
    <2>3. Target(c) \in Runs
      BY <2>2, TargetIsRun
    <2>4. Target(c) # r
      BY <2>1, <2>2, <2>3, Ages DEF Retained
    <2> QED
      BY <1>1, <1>4, <2>1, <2>4 DEF StepDeletesBatch, RetentionTypeOK, Retained
  <1>5. ASSUME NEW c \in Cleaners, StepDeletesRoot(c)
        PROVE  channels'[r] = Channels
    BY <1>1, <1>5 DEF StepDeletesRoot, RetentionTypeOK, Retained, NoRun
  <1>6. CASE Tick
    <2>1. UNCHANGED <<run, channels>> /\ now <= now' /\ now' \in Nat
      BY <1>6, Ages DEF Tick
    <2>2. Retained(r)
      BY <2>1, Ages DEF Retained
    <2> QED BY <1>1, <2>1, <2>2
  <1>7. CASE UNCHANGED <<now, run, channels>>
    BY <1>1, <1>7 DEF Retained
  <1> QED
    BY <1>2, <1>3, <1>4, <1>5, <1>6, <1>7
    DEF RetentionNext, StartStep, BuildCommand, StartWritesNothing,
        StartIsCutOff, PurgeBucket, CleanerStep, CycleScans, StepLoadsPlan,
        StepSkips, StepLists, StepFindsNothing, StepRechecks, CycleEnds,
        CycleIsCutOff, retentionVars

-----------------------------------------------------------------------------
(* The theorems.                                                           *)

RetentionInductive ==
    /\ RetentionTypeOK /\ CommandsFresh /\ BucketsCount
    /\ TerminalSettled /\ CleanersFollow /\ ChannelsHaveTheirRun

\* The invariant the others follow from.
THEOREM RetentionInvariant == RetentionSpec => []RetentionInductive
  <1>1. RetentionInit => RetentionInductive
    <2> SUFFICES ASSUME RetentionInit PROVE RetentionInductive
      OBVIOUS
    <2>1. RetentionTypeOK
      BY RetentionInitTypes
    <2>2. BucketsCount
      BY Bounds DEF RetentionInit, BucketsCount
    <2>3. CleanersFollow
      BY IdleTypes DEF RetentionInit, CleanersFollow, Working, At
    <2> QED
      BY <2>1, <2>2, <2>3
      DEF RetentionInit, RetentionInductive, CommandsFresh, TerminalSettled,
          ChannelsHaveTheirRun, NoRun
  <1>2. RetentionInductive /\ [RetentionNext]_retentionVars => RetentionInductive'
    BY RetentionTypesPreserved, BucketsPreserved, DeletionsPreserved
    DEF RetentionInductive
  <1> QED BY <1>1, <1>2, PTL DEF RetentionSpec

\* No window admits more runs than its limit, although a start commits after
\* its window has ended and buckets expire (public_lite_firestore_port.js,
\* rate_limit_contract.js).
THEOREM WindowsLimited == RetentionSpec => []WindowLimit
  <1>1. RetentionInductive => WindowLimit
    BY DEF RetentionInductive, BucketsCount, WindowLimit
  <1> QED BY <1>1, RetentionInvariant, PTL

\* However many cleaners overlap, no channel loses its run
\* (recursive_cleanup_firestore_port.js).
THEOREM ChannelsKeepTheirRun == RetentionSpec => []ChannelsHaveTheirRun
  BY RetentionInvariant, PTL DEF RetentionInductive

\* deleteRootTransaction only ever deletes a run that is terminal and expired.
THEOREM RetainedRunsStay == RetentionSpec => OnlyExpiredRunsGo
  <1>1. RetentionInductive /\ [RetentionNext]_retentionVars
          => [\A r \in Runs :
                run[r].state # "absent" /\ run'[r].state = "absent"
                  => run[r].state = "terminal" /\ run[r].expiresAt <= now
             ]_retentionVars
    <2> SUFFICES ASSUME RetentionInductive, [RetentionNext]_retentionVars,
                        NEW r \in Runs,
                        run[r].state # "absent", run'[r].state = "absent"
                 PROVE  run[r].state = "terminal" /\ run[r].expiresAt <= now
      OBVIOUS
    <2> USE DEF RetentionInductive
    <2>1. ASSUME NEW c \in Cleaners, CleanerStep(c)
          PROVE  run[r].state = "terminal" /\ run[r].expiresAt <= now
      <3>1. run[r].state = "terminal" /\ run[r].expiresAt <= cleaner[c].at
        BY <2>1, CleanerDeletes
      <3>2. /\ cleaner[c].at <= now /\ cleaner[c].at \in Nat /\ now \in Nat
            /\ run[r].expiresAt \in Nat
        BY Bounds
        DEF CleanersFollow, RetentionTypeOK, CleanerStates, RunDocuments, Times
      <3> QED BY <3>1, <3>2
    <2>2. ASSUME NEW cmd \in commands, StartCreates(cmd) PROVE FALSE
      BY <2>2, CommandTypes DEF StartCreates, RetentionTypeOK
    <2>3. ASSUME NEW q \in Runs, RunFails(q) PROVE FALSE
      BY <2>3 DEF RunFails, RetentionTypeOK, RunDocuments
    <2>4. ASSUME UNCHANGED run PROVE FALSE
      BY <2>4
    <2> QED
      BY <2>1, <2>2, <2>3, <2>4
      DEF RetentionNext, StartStep, BuildCommand, StartWritesNothing,
          StartIsCutOff, PurgeBucket, CycleIsCutOff, Tick, retentionVars
  <1> QED BY <1>1, RetentionInvariant, PTL DEF RetentionSpec, OnlyExpiredRunsGo

\* While one cleaner runs at a time, a run that is open or has not expired
\* keeps all of its channels, although the cleaner deletes them in batches by a
\* plan it read before (recursive_cleanup_firestore_port.js). Without
\* OneCleaner it is false.
THEOREM RetainedRunsStayWhole ==
  ASSUME OneCleaner
  PROVE  RetentionSpec => []RetainedRunsAreWhole
  <1> DEFINE Inv == CleanerHolds /\ RetainedRunsAreWhole
  <1>1. RetentionInit => Inv
    <2> SUFFICES ASSUME RetentionInit PROVE Inv
      OBVIOUS
    <2>1. CleanerHolds
      BY IdleTypes DEF RetentionInit, CleanerHolds, Working
    <2> QED BY <2>1 DEF RetentionInit, RetainedRunsAreWhole, NoRun
  <1>2. RetentionInductive /\ Inv /\ [RetentionNext]_retentionVars => Inv'
    BY HoldsPreserved, WholePreserved DEF RetentionInductive
  <1>3. Inv => RetainedRunsAreWhole
    OBVIOUS
  <1> HIDE DEF Inv
  <1> QED
    BY <1>1, <1>2, <1>3, RetentionInvariant, PTL DEF RetentionSpec
=============================================================================
