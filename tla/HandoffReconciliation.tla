------------------------ MODULE HandoffReconciliation ------------------------
(***************************************************************************)
(* The cycles of the handoff reconciler against a clock: what it lists,    *)
(* in which order and how much of it one cycle works off.                  *)
(*                                                                         *)
(* PublicLiteHandoff says who may claim and mark a handoff, and knows only *)
(* whether it is due.  Here the due times are instants, so that their      *)
(* order, the lease and the back-off decide which handoffs a cycle with a  *)
(* limit reaches.  A claim is one step, from the clock reading to the      *)
(* commit; accepted handoffs are also taken by the trigger of their        *)
(* creation event.                                                         *)
(***************************************************************************)
EXTENDS Naturals, FiniteSets, RiskScanLifecycle

CONSTANTS
    Handoffs,      \* handoff documents, one for each execution
    Reconciler,    \* the single instance of the scheduled function
    Triggers,      \* trigger invocations that can run at the same time
    DueScanLimit,  \* limit of the query for due handoffs
    CycleLimit,    \* handoffs one cycle attempts
    MaxAttempts,   \* PUBLIC_LITE_PROVIDER_HANDOFF_MAX_ATTEMPTS
    Lease,         \* PUBLIC_LITE_PROVIDER_HANDOFF_LEASE_MS, in ticks
    RetryDelay,    \* publicLiteProviderHandoffRetryDelayMs by attempt, in ticks
    MaxTime,       \* bound: the last instant
    MaxErrors      \* bound: claims of the reconciler that throw

ASSUME ReconciliationAssumption ==
    /\ IsFiniteSet(Handoffs)
    /\ Reconciler \notin Triggers
    /\ {DueScanLimit, CycleLimit, MaxAttempts, Lease} \subseteq Nat \ {0}
    /\ RetryDelay \in [1..MaxAttempts -> Nat \ {0}]
    /\ {MaxTime, MaxErrors} \subseteq Nat

VARIABLES
    clock,       \* the time
    handoff,     \* handoff documents
    worker,      \* the claim each worker holds, or Free
    cycle,       \* the running cycle: what is left of its listing, the due
                 \* times the query saw, and the history variable unreached
    overtaken,   \* history: claims of the reconciler on others, while due
    passedOver,  \* history: finished cycles that did not reach the handoff
    errors       \* claims that threw so far

history == <<overtaken, passedOver>>
vars == <<clock, handoff, worker, cycle, overtaken, passedOver, errors>>

Workers == Triggers \cup {Reconciler}
Free == [handoff |-> "none", attempt |-> 0]

\* childDispatchDueAtTimestamp, which is set in the due states only.
NoDue == 0

NoCycle ==
    [open |-> FALSE, listed |-> {}, dueThen |-> [h \in Handoffs |-> NoDue],
     attempted |-> 0, unreached |-> {}]

HandoffRecords ==
    [state   : HandoffStates \cup {"absent"},
     due     : Nat,
     attempt : 0..MaxAttempts]

LeaseRecords == [handoff : Handoffs, attempt : 1..MaxAttempts]

CycleRecords ==
    [open      : BOOLEAN,
     listed    : SUBSET Handoffs,
     dueThen   : [Handoffs -> Nat],
     attempted : 0..CycleLimit,
     unreached : SUBSET Handoffs]

ReconciliationTypeOK ==
    /\ clock \in Nat
    /\ handoff \in [Handoffs -> HandoffRecords]
    /\ worker \in [Workers -> LeaseRecords \cup {Free}]
    /\ cycle \in CycleRecords
    /\ overtaken \in [Handoffs -> [Handoffs -> Nat]]
    /\ passedOver \in [Handoffs -> Nat]
    /\ errors \in 0..MaxErrors

Init ==
    /\ clock = 1
    /\ handoff = [h \in Handoffs |->
                    [state |-> "absent", due |-> NoDue, attempt |-> 0]]
    /\ worker = [w \in Workers |-> Free]
    /\ cycle = NoCycle
    /\ overtaken = [h \in Handoffs |-> [f \in Handoffs |-> 0]]
    /\ passedOver = [h \in Handoffs |-> 0]
    /\ errors = 0

ClockAdvances ==
    /\ clock < MaxTime
    /\ clock' = clock + 1
    /\ UNCHANGED <<handoff, worker, cycle, history, errors>>

\* A handoff that was attempted or rewritten begins to wait anew.
WaitsAnew(h) ==
    /\ overtaken' = [overtaken EXCEPT ![h] = [f \in Handoffs |-> 0]]
    /\ passedOver' = [passedOver EXCEPT ![h] = 0]

Without(h) == [cycle EXCEPT !.unreached = @ \ {h}]

Write(h, state, due) ==
    handoff' = [handoff EXCEPT ![h].state = state, ![h].due = due]

Accept(h) ==
    /\ handoff[h].state = "absent"
    /\ Write(h, "accepted", clock)
    /\ UNCHANGED <<clock, worker, cycle, history, errors>>

-----------------------------------------------------------------------------
(* The claim, for the trigger and for the reconciler.                      *)

IsDue(h) == handoff[h].state \in HandoffDueStates /\ handoff[h].due <= clock

\* Short of its attempts the claimant leases the handoff, and the end of the
\* lease is its next due time.
Claims(w, h) ==
    /\ IsDue(h)
    /\ handoff[h].attempt < MaxAttempts
    /\ handoff' = [handoff EXCEPT ![h] = [state   |-> "child_dispatching",
                                          due     |-> clock + Lease,
                                          attempt |-> @.attempt + 1]]
    /\ worker' = [worker EXCEPT ![w] = [handoff |-> h,
                                        attempt |-> handoff[h].attempt + 1]]

DeadLetters(h) ==
    /\ IsDue(h)
    /\ handoff[h].attempt = MaxAttempts
    /\ Write(h, "dead_letter", NoDue)
    /\ UNCHANGED worker

TriggerTakes(w, h) ==
    /\ w \in Triggers
    /\ worker[w] = Free
    /\ Claims(w, h) \/ DeadLetters(h)
    /\ WaitsAnew(h)
    /\ cycle' = Without(h)
    /\ UNCHANGED <<clock, errors>>

-----------------------------------------------------------------------------
(* A cycle.                                                                *)

Due == {h \in Handoffs : IsDue(h)}

\* Mutant of Lists: the listing is ordered after the limit was applied.
ListsThenOrders(listing) ==
    /\ listing \subseteq Due
    /\ \/ listing = Due /\ Cardinality(Due) <= DueScanLimit
       \/ Cardinality(listing) = DueScanLimit

\* listDueHandoffs: the DueScanLimit handoffs that have been due for longest.
Lists(listing) ==
    /\ listing \subseteq Due
    /\ \/ listing = Due /\ Cardinality(Due) <= DueScanLimit
       \/ Cardinality(listing) = DueScanLimit
    /\ \A h \in listing, g \in Due \ listing : handoff[h].due <= handoff[g].due

StartCycle ==
    /\ ~cycle.open
    /\ \E listing \in SUBSET Handoffs :
         /\ Lists(listing)
         /\ cycle' = [open      |-> TRUE,
                      listed    |-> listing,
                      dueThen   |-> [h \in Handoffs |->
                                       IF h \in listing THEN handoff[h].due
                                                        ELSE NoDue],
                      attempted |-> 0,
                      unreached |-> Due]
    /\ UNCHANGED <<clock, handoff, worker, history, errors>>

\* Mutant of IsNext: the query has no order.
IsListed(h) == h \in cycle.listed

\* The records are worked off in the order of the query, by the due times it
\* saw; equal ones come in either order.
IsNext(h) ==
    /\ h \in cycle.listed
    /\ \A g \in cycle.listed : cycle.dueThen[h] <= cycle.dueThen[g]

\* The loop reaches a record while the process limit allows it.
Reaches(h) ==
    /\ cycle.open
    /\ worker[Reconciler] = Free
    /\ IsNext(h)
    /\ cycle.attempted < CycleLimit
    /\ cycle' = [Without(h) EXCEPT
                   !.listed = @ \ {h},
                   !.attempted = @ + 1]

ReconcilerClaims(h) ==
    /\ Reaches(h)
    /\ Claims(Reconciler, h)
    /\ overtaken' = [e \in Handoffs |->
                       IF e = h THEN [f \in Handoffs |-> 0]
                       ELSE IF IsDue(e) THEN [overtaken[e] EXCEPT ![h] = @ + 1]
                       ELSE overtaken[e]]
    /\ passedOver' = [passedOver EXCEPT ![h] = 0]
    /\ UNCHANGED <<clock, errors>>

ReconcilerDeadLetters(h) ==
    /\ Reaches(h)
    /\ DeadLetters(h)
    /\ WaitsAnew(h)
    /\ UNCHANGED <<clock, errors>>

\* completed, already_dispatched, terminal, lease_held and not_due.
ReconcilerDeclined(h) ==
    /\ Reaches(h)
    /\ ~IsDue(h)
    /\ WaitsAnew(h)
    /\ UNCHANGED <<clock, handoff, worker, errors>>

\* The claim throws: the failure is counted, and the loop goes on.
ReconcilerErrs(h) ==
    /\ errors < MaxErrors
    /\ Reaches(h)
    /\ WaitsAnew(h)
    /\ errors' = errors + 1
    /\ UNCHANGED <<clock, handoff, worker>>

\* The rest of the listing is skipped.
EndCycle ==
    /\ cycle.open
    /\ worker[Reconciler] = Free
    /\ cycle.listed = {} \/ cycle.attempted = CycleLimit
    /\ cycle' = NoCycle
    /\ passedOver' = [h \in Handoffs |->
                        IF h \in cycle.unreached THEN passedOver[h] + 1
                                                 ELSE passedOver[h]]
    /\ UNCHANGED <<clock, handoff, worker, overtaken, errors>>

\* The instance is stopped, or the cycle exceeds its 540 seconds.
CutOff ==
    /\ cycle.open
    /\ cycle' = NoCycle
    /\ worker' = [worker EXCEPT ![Reconciler] = Free]
    /\ UNCHANGED <<clock, handoff, history, errors>>

-----------------------------------------------------------------------------
(* What becomes of a claim.                                                *)

\* assertChildLease
HoldsLease(w) ==
    /\ worker[w] # Free
    /\ handoff[worker[w].handoff].state = "child_dispatching"
    /\ handoff[worker[w].handoff].attempt = worker[w].attempt

Marks(w, state, due) ==
    /\ HoldsLease(w)
    /\ Write(worker[w].handoff, state, due)
    /\ worker' = [worker EXCEPT ![w] = Free]
    /\ WaitsAnew(worker[w].handoff)
    /\ cycle' = Without(worker[w].handoff)
    /\ UNCHANGED <<clock, errors>>

MarkDispatched(w) == Marks(w, "child_dispatched", NoDue)

MarkFailed(w) ==
    \/ /\ worker[w].attempt < MaxAttempts
       /\ Marks(w, "failed", clock + RetryDelay[worker[w].attempt])
    \/ Marks(w, "dead_letter", NoDue)

\* The mark throws, finds the lease gone or meets its own outcome, or the
\* trigger is cut off.
Leaves(w) ==
    /\ worker[w] # Free
    /\ worker' = [worker EXCEPT ![w] = Free]
    /\ UNCHANGED <<clock, handoff, cycle, history, errors>>

\* persistPublicLiteResultReceipt
Completes(h) ==
    /\ handoff[h].state \in {"child_dispatching", "child_dispatched"}
    /\ Write(h, "completed", NoDue)
    /\ WaitsAnew(h)
    /\ cycle' = Without(h)
    /\ UNCHANGED <<clock, worker, errors>>

-----------------------------------------------------------------------------
Cycle ==
    \/ StartCycle
    \/ EndCycle
    \/ CutOff
    \/ \E h \in Handoffs :
         \/ ReconcilerClaims(h)
         \/ ReconcilerDeadLetters(h)
         \/ ReconcilerDeclined(h)
         \/ ReconcilerErrs(h)

Next ==
    \/ ClockAdvances
    \/ Cycle
    \/ \E h \in Handoffs : Accept(h) \/ Completes(h)
    \/ \E w \in Workers, h \in Handoffs : TriggerTakes(w, h)
    \/ \E w \in Workers : MarkDispatched(w) \/ MarkFailed(w) \/ Leaves(w)

Spec == Init /\ [][Next]_vars

-----------------------------------------------------------------------------
(* Properties.                                                             *)

\* However often others fail and come due again, lose their lease or are
\* listed twice, and however many cycles are cut off, no handoff that is due is
\* overtaken twice by the same other one: whoever was claimed meanwhile has a
\* due time behind it.
NotOvertaken ==
    \A e, f \in Handoffs : IsDue(e) => overtaken[e][f] <= 1

\* Why NotOvertaken holds: a handoff that was claimed past one that is due, even
\* once, is behind it from then on, both in its document and in what is left of
\* the listing.
Behind ==
    \A e, f \in Handoffs :
        overtaken[e][f] # 0 =>
            /\ handoff[e].state # "absent" /\ handoff[f].state # "absent"
            /\ handoff[e].state \in HandoffDueStates =>
                 /\ overtaken[e][f] = 1
                 /\ handoff[e].due <= clock
                 /\ handoff[f].state \in HandoffDueStates =>
                      handoff[e].due < handoff[f].due
                 /\ f \in cycle.listed =>
                      /\ e \in cycle.listed
                      /\ cycle.dueThen[e] < cycle.dueThen[f]

\* A due handoff waits for its turn and no longer: the cycles that pass over it
\* have worked off CycleLimit others each, every one of them once, apart from
\* those whose claim threw, which keep their place at the head.
WaitsItsTurn ==
    \A h \in Handoffs :
        passedOver[h] * CycleLimit <= Cardinality(Handoffs) - 1 + errors
=============================================================================
