-------------------------- MODULE PublicLiteHandoff --------------------------
(***************************************************************************)
(* Provider handoffs: durable acceptance, dispatch of the child            *)
(* acquisition, reconciliation and result receipts.                        *)
(*                                                                         *)
(* The gateway has a handoff accepted for a dispatching execution.  The    *)
(* creation of its document is an event, delivered at least once to        *)
(* dispatchPublicLiteRiskScanAcquisition; besides, every five minutes one  *)
(* reconciler goes through the handoffs that are due.  Both run            *)
(* dispatchAcceptedPublicLiteProviderHandoff: claim the child lease, call  *)
(* the provider, record the answer.  A child that was started posts a      *)
(* result, which completes the handoff.  Each action is one Firestore      *)
(* transaction, one query, or one answer of the provider.                  *)
(*                                                                         *)
(* A handoff is keyed by its execution.  The lease token is derived from   *)
(* owner, attempt and time, so that equal attempts have equal tokens and   *)
(* comparing the attempt compares the token.  The identity of the child is *)
(* derived from the handoff, so that every receipt names the same one.     *)
(***************************************************************************)
EXTENDS Naturals, RiskScanLifecycle

CONSTANTS
    Executions,       \* execution ids
    Triggers,         \* trigger invocations that can run at the same time
    Reconciler,       \* the single instance of the scheduled function
    ProviderEvents,   \* providerEventIds of result envelopes
    CompletionTimes,  \* completedAt of result envelopes
    MaxAttempts,      \* PUBLIC_LITE_PROVIDER_HANDOFF_MAX_ATTEMPTS
    MaxCrashes,       \* bound: how often a worker is cut off
    Duplicates        \* whether an acknowledged event may be delivered again

ASSUME HandoffAssumption ==
    /\ Reconciler \notin Triggers
    /\ "none" \notin CompletionTimes
    /\ MaxAttempts \in Nat \ {0}
    /\ MaxCrashes \in Nat
    /\ Duplicates \in BOOLEAN

VARIABLES
    execution,  \* status of the execution document (PublicLiteExecution)
    handoff,    \* handoff document; state "absent" before acceptance
    child,      \* whether the provider ever started the acquisition
    receipts,   \* result receipts, by provider event: completedAt or "none"
    event,      \* the platform's obligation to deliver the creation event
    worker,     \* local state of the trigger invocations and the reconciler
    batch,      \* due handoffs the reconciler has listed and not reached yet
    crashes     \* workers cut off so far

handoffVars ==
    <<execution, handoff, child, receipts, event, worker, batch, crashes>>

Workers == Triggers \cup {Reconciler}

ChildAnswers ==
    {"receipt",       \* 202 with a receipt of this handoff
     "refused",       \* other 2xx/4xx, too large, empty or not JSON, no token
     "unavailable"}   \* timeout, network error, 408, 425, 429, 5xx; also any
                      \* receipt that fails the contract, which the dispatcher
                      \* reports as acquisition_network_error

\* In state child_dispatching this is the end of the lease, which
\* claimChildDispatch writes to both fields.
DueTimes == {"none", "future", "past"}

HandoffDocuments ==
    [state        : HandoffStates \cup {"absent"},
     attemptCount : 0..MaxAttempts,
     due          : DueTimes,
     completedAt  : CompletionTimes \cup {"none"}]

WorkerPcs == {"idle", "claim", "dispatch", "mark"}

WorkerStates ==
    {s \in [pc        : WorkerPcs,
            execution : Executions \cup {"none"},
            attempt   : 0..MaxAttempts,
            answer    : ChildAnswers \cup {"none"}] :
       s.pc # "idle" => s.execution \in Executions}

HandoffTypeOK ==
    /\ execution \in [Executions -> ExecutionStatuses]
    /\ handoff \in [Executions -> HandoffDocuments]
    /\ child \in [Executions -> BOOLEAN]
    /\ receipts \in [Executions -> [ProviderEvents ->
                                      CompletionTimes \cup {"none"}]]
    /\ event \in [Executions -> {"absent", "pending", "acked"}]
    /\ worker \in [Workers -> WorkerStates]
    /\ batch \subseteq Executions
    /\ crashes \in 0..MaxCrashes

Unaccepted ==
    [state |-> "absent", attemptCount |-> 0, due |-> "none",
     completedAt |-> "none"]

Resting == [pc |-> "idle", execution |-> "none", attempt |-> 0, answer |-> "none"]

HandoffInit ==
    /\ execution = [e \in Executions |-> "prepared"]
    /\ handoff = [e \in Executions |-> Unaccepted]
    /\ child = [e \in Executions |-> FALSE]
    /\ receipts = [e \in Executions |-> [p \in ProviderEvents |-> "none"]]
    /\ event = [e \in Executions |-> "absent"]
    /\ worker = [w \in Workers |-> Resting]
    /\ batch = {}
    /\ crashes = 0

-----------------------------------------------------------------------------
(* Acceptance, and the execution around it.                                *)

\* What PublicLiteExecution does with the execution meanwhile.  The gateway
\* hands out its receipt only after acceptance.
ExecutionMoves(e) ==
    /\ \/ /\ execution[e] \in {"prepared", "retryableFailure"}
          /\ execution' = [execution EXCEPT ![e] = "dispatching"]
       \/ /\ execution[e] = "dispatching"
          /\ \E s \in {"retryableFailure", "terminalFailure"} :
               execution' = [execution EXCEPT ![e] = s]
       \/ /\ execution[e] = "dispatching"
          /\ handoff[e].state # "absent"
          /\ execution' = [execution EXCEPT ![e] = "dispatched"]
    /\ UNCHANGED <<handoff, child, receipts, event, worker, batch, crashes>>

\* A new handoff is due at once, though a worker whose clock is behind the
\* accepting instance does not think so.  A replay changes nothing.
AcceptHandoff(e, due) ==
    /\ execution[e] = "dispatching"
    /\ handoff[e].state = "absent"
    /\ handoff' = [handoff EXCEPT ![e].state = "accepted", ![e].due = due]
    /\ event' = [event EXCEPT ![e] = "pending"]
    /\ UNCHANGED <<execution, child, receipts, worker, batch, crashes>>

-----------------------------------------------------------------------------
(* The trigger and the reconciler around the shared dispatch.              *)

AtStep(w, pc) == worker[w].pc = pc
Current(w) == handoff[worker[w].execution]

Begin(w, e) ==
    worker' = [worker EXCEPT ![w] = [pc |-> "claim", execution |-> e,
                                     attempt |-> 0, answer |-> "none"]]

DeliverAccepted(w, e) ==
    /\ w \in Triggers
    /\ AtStep(w, "idle")
    /\ event[e] = "pending" \/ (event[e] = "acked" /\ Duplicates)
    /\ Begin(w, e)
    /\ UNCHANGED <<execution, handoff, child, receipts, event, batch, crashes>>

\* Mutant of Due: the query leaves out the handoffs that failed.
DueNotFailed ==
    {e \in Executions : handoff[e].state \in {"accepted", "child_dispatching"}
                          /\ handoff[e].due = "past"}

\* listDueHandoffs
Due == {e \in Executions : handoff[e].state \in HandoffDueStates
                             /\ handoff[e].due = "past"}

ReconcileLists ==
    /\ AtStep(Reconciler, "idle")
    /\ batch = {}
    /\ Due # {}
    /\ batch' = Due
    /\ UNCHANGED <<execution, handoff, child, receipts, event, worker, crashes>>

ReconcileTakes(e) ==
    /\ AtStep(Reconciler, "idle")
    /\ e \in batch
    /\ batch' = batch \ {e}
    /\ Begin(Reconciler, e)
    /\ UNCHANGED <<execution, handoff, child, receipts, event, crashes>>

\* The shared dispatch returned: the trigger acknowledges its event.
Returned(w) ==
    /\ worker' = [worker EXCEPT ![w] = Resting]
    /\ event' = IF w \in Triggers
                THEN [event EXCEPT ![worker[w].execution] = "acked"]
                ELSE event

\* It threw, or the trigger throws because a retry is wanted: the event stays.
\* The reconciler counts the failure and goes on to the next handoff.
Threw(w) == worker' = [worker EXCEPT ![w] = Resting] /\ UNCHANGED event

-----------------------------------------------------------------------------
(* dispatchAcceptedPublicLiteProviderHandoff                               *)

\* completed, already_dispatched, terminal, lease_held and not_due.
NotClaimable(w) ==
    \/ Current(w).state \in {"child_dispatched", "completed", "dead_letter"}
    \/ Current(w).due = "future"

ClaimDeclined(w) ==
    /\ AtStep(w, "claim")
    /\ NotClaimable(w)
    /\ Returned(w)
    /\ UNCHANGED <<execution, handoff, child, receipts, batch, crashes>>

ClaimDeadLetters(w) ==
    /\ AtStep(w, "claim")
    /\ ~NotClaimable(w)
    /\ Current(w).attemptCount + 1 > MaxAttempts
    /\ handoff' = [handoff EXCEPT ![worker[w].execution].state = "dead_letter",
                                  ![worker[w].execution].due = "none"]
    /\ Returned(w)
    /\ UNCHANGED <<execution, child, receipts, batch, crashes>>

\* Mutant of ClaimChildDispatch: no due time is written with the lease.
ClaimChildDispatchNoDue(w) ==
    /\ AtStep(w, "claim")
    /\ ~NotClaimable(w)
    /\ Current(w).attemptCount + 1 <= MaxAttempts
    /\ handoff' = [handoff EXCEPT
                     ![worker[w].execution].state = "child_dispatching",
                     ![worker[w].execution].attemptCount = @ + 1,
                     ![worker[w].execution].due = "none"]
    /\ worker' = [worker EXCEPT ![w].pc = "dispatch",
                                ![w].attempt = Current(w).attemptCount + 1]
    /\ UNCHANGED <<execution, child, receipts, event, batch, crashes>>

ClaimChildDispatch(w) ==
    /\ AtStep(w, "claim")
    /\ ~NotClaimable(w)
    /\ Current(w).attemptCount + 1 <= MaxAttempts
    /\ handoff' = [handoff EXCEPT
                     ![worker[w].execution].state = "child_dispatching",
                     ![worker[w].execution].attemptCount = @ + 1,
                     ![worker[w].execution].due = "future"]
    /\ worker' = [worker EXCEPT ![w].pc = "dispatch",
                                ![w].attempt = Current(w).attemptCount + 1]
    /\ UNCHANGED <<execution, child, receipts, event, batch, crashes>>

\* The provider answers, or the 45 second timer fires.  Only a receipt proves
\* that the child was started; no other answer proves that it was not.
ProviderAnswers(w, answer, started) ==
    /\ AtStep(w, "dispatch")
    /\ answer = "receipt" => started
    /\ worker' = [worker EXCEPT ![w].pc = "mark", ![w].answer = answer]
    /\ child' = [child EXCEPT ![worker[w].execution] = @ \/ started]
    /\ UNCHANGED <<execution, handoff, receipts, event, batch, crashes>>

\* Mutant of ChildLeaseMatches: the state is trusted, the attempt is not compared.
ChildLeaseMatchesState(w) == Current(w).state = "child_dispatching"

\* assertChildLease
ChildLeaseMatches(w) ==
    /\ Current(w).state = "child_dispatching"
    /\ Current(w).attemptCount = worker[w].attempt

Answered(w, answers) == AtStep(w, "mark") /\ worker[w].answer \in answers

MarkChildDispatched(w) ==
    /\ Answered(w, {"receipt"})
    /\ Current(w).state \notin {"child_dispatched", "completed"}
    /\ ChildLeaseMatches(w)
    /\ handoff' = [handoff EXCEPT
                     ![worker[w].execution].state = "child_dispatched",
                     ![worker[w].execution].due = "none"]
    /\ Returned(w)
    /\ UNCHANGED <<execution, child, receipts, batch, crashes>>

MarkReplaysDispatched(w) ==
    /\ Answered(w, {"receipt"})
    /\ Current(w).state \in {"child_dispatched", "completed"}
    /\ Returned(w)
    /\ UNCHANGED <<execution, handoff, child, receipts, batch, crashes>>

\* Mutant of ChildRetryable: terminalByAttempts is forgotten.
ChildRetryableByAnswer(w) == worker[w].answer = "unavailable"

ChildRetryable(w) ==
    worker[w].answer = "unavailable" /\ worker[w].attempt < MaxAttempts

FailedState(w) == IF ChildRetryable(w) THEN "failed" ELSE "dead_letter"

\* A retryable failure is thrown by the trigger, a terminal one returned.
ReportChildFailure(w) == IF ChildRetryable(w) THEN Threw(w) ELSE Returned(w)

MarkChildFailed(w) ==
    /\ Answered(w, {"refused", "unavailable"})
    /\ Current(w).state # FailedState(w)
    /\ ChildLeaseMatches(w)
    /\ handoff' = [handoff EXCEPT
                     ![worker[w].execution].state = FailedState(w),
                     ![worker[w].execution].due =
                        IF ChildRetryable(w) THEN "future" ELSE "none"]
    /\ ReportChildFailure(w)
    /\ UNCHANGED <<execution, child, receipts, batch, crashes>>

\* The state is compared before the lease: a failure of the same kind is
\* taken for a replay of this one.
MarkReplaysChildFailure(w) ==
    /\ Answered(w, {"refused", "unavailable"})
    /\ Current(w).state = FailedState(w)
    /\ ReportChildFailure(w)
    /\ UNCHANGED <<execution, handoff, child, receipts, batch, crashes>>

MarkChildConflicts(w) ==
    /\ AtStep(w, "mark")
    /\ Current(w).state \notin
         (IF worker[w].answer = "receipt" THEN {"child_dispatched", "completed"}
                                          ELSE {FailedState(w)})
    /\ ~ChildLeaseMatches(w)
    /\ Threw(w)
    /\ UNCHANGED <<execution, handoff, child, receipts, batch, crashes>>

-----------------------------------------------------------------------------
(* persistPublicLiteResultReceipt                                          *)

ResultReady == {"child_dispatching", "child_dispatched", "completed"}

Complete(e, time) ==
    handoff' = [handoff EXCEPT ![e].state = "completed", ![e].due = "none",
                               ![e].completedAt = time]

\* Mutant of ResultCreates: completePublicLiteProviderHandoffRecord accepts any
\* completedAt once the handoff is completed.
ResultCreatesUnchecked(e, p, time) ==
    /\ child[e]
    /\ receipts[e][p] = "none"
    /\ execution[e] = "dispatched"
    /\ handoff[e].state \in ResultReady
    /\ receipts' = [receipts EXCEPT ![e][p] = time]
    /\ Complete(e, time)
    /\ UNCHANGED <<execution, child, event, worker, batch, crashes>>

\* Mutant of ResultCreates: the status of the execution is not checked.
ResultCreatesAnyExecution(e, p, time) ==
    /\ child[e]
    /\ receipts[e][p] = "none"
    /\ handoff[e].state \in ResultReady
    /\ handoff[e].state = "completed" => handoff[e].completedAt = time
    /\ receipts' = [receipts EXCEPT ![e][p] = time]
    /\ Complete(e, time)
    /\ UNCHANGED <<execution, child, event, worker, batch, crashes>>

\* A new provider event.  A completed handoff takes further receipts, as long
\* as they name its completedAt.
ResultCreates(e, p, time) ==
    /\ child[e]
    /\ receipts[e][p] = "none"
    /\ execution[e] = "dispatched"
    /\ handoff[e].state \in ResultReady
    /\ handoff[e].state = "completed" => handoff[e].completedAt = time
    /\ receipts' = [receipts EXCEPT ![e][p] = time]
    /\ Complete(e, time)
    /\ UNCHANGED <<execution, child, event, worker, batch, crashes>>

\* The same envelope again.
ResultReplays(e, p, time) ==
    /\ receipts[e][p] = time
    /\ handoff[e].state \in ResultReady
    /\ handoff[e].state = "completed" => handoff[e].completedAt = time
    /\ IF handoff[e].state = "completed" THEN UNCHANGED handoff
                                         ELSE Complete(e, time)
    /\ UNCHANGED <<execution, child, receipts, event, worker, batch, crashes>>

-----------------------------------------------------------------------------
(* The environment.                                                        *)

\* The lease runs out, the back-off is over.
Elapses(e) ==
    /\ handoff[e].due = "future"
    /\ handoff' = [handoff EXCEPT ![e].due = "past"]
    /\ UNCHANGED <<execution, child, receipts, event, worker, batch, crashes>>

CutOff(w) ==
    /\ ~AtStep(w, "idle")
    /\ crashes < MaxCrashes
    /\ crashes' = crashes + 1
    /\ Threw(w)
    /\ batch' = IF w = Reconciler THEN {} ELSE batch
    /\ UNCHANGED <<execution, handoff, child, receipts>>

-----------------------------------------------------------------------------

ClaimChild(w) ==
    ClaimDeclined(w) \/ ClaimDeadLetters(w) \/ ClaimChildDispatch(w)

MarkChild(w) ==
    \/ MarkChildDispatched(w) \/ MarkReplaysDispatched(w)
    \/ MarkChildFailed(w) \/ MarkReplaysChildFailure(w) \/ MarkChildConflicts(w)

Dispatch(w) ==
    \/ ClaimChild(w) \/ MarkChild(w)
    \/ \E answer \in ChildAnswers, started \in BOOLEAN :
         ProviderAnswers(w, answer, started)

Reconcile ==
    \/ ReconcileLists
    \/ \E e \in Executions : ReconcileTakes(e)
    \/ Dispatch(Reconciler)

ResultArrives(e) ==
    \E p \in ProviderEvents, time \in CompletionTimes :
      ResultCreates(e, p, time) \/ ResultReplays(e, p, time)

HandoffNext ==
    \/ \E e \in Executions :
         \/ ExecutionMoves(e) \/ ResultArrives(e) \/ Elapses(e)
         \/ \E due \in {"past", "future"} : AcceptHandoff(e, due)
         \/ \E w \in Triggers : DeliverAccepted(w, e)
    \/ \E w \in Triggers : Dispatch(w)
    \/ Reconcile
    \/ \E w \in Workers : CutOff(w)

HandoffSpec == HandoffInit /\ [][HandoffNext]_handoffVars

\* The scheduler starts the reconciler again and again, a cycle that is not
\* cut off goes on, and clocks advance.  Of the trigger nothing is assumed.
FairHandoffSpec ==
    /\ HandoffSpec
    /\ WF_handoffVars(Reconcile)
    /\ \A e \in Executions : WF_handoffVars(Elapses(e))

-----------------------------------------------------------------------------
(* Properties.                                                             *)

\* A handoff that still needs a dispatch is always one the due query can find,
\* now or after some time, and a settled one never is: otherwise
\* assertPublicLiteProviderHandoffRecord would reject the document in every
\* later transaction and stop every reconciler cycle that lists it.
DueWhileUnsettled ==
    \A e \in Executions :
      handoff[e].state \in HandoffDueStates <=> handoff[e].due # "none"

ChildAttempt(w) == worker[w].pc \in {"dispatch", "mark"}

\* A handoff that still waits for a dispatch has an attempt left, and one that
\* was only accepted has used none.
AttemptsLeft ==
    \A e \in Executions :
      /\ handoff[e].state \in {"absent", "accepted"} => handoff[e].attemptCount = 0
      /\ handoff[e].state = "failed" => handoff[e].attemptCount < MaxAttempts

\* A child attempt has one worker, and until the worker of the newest attempt
\* reports, only the result of the child or the exhaustion of the attempts
\* takes the handoff from it, whichever of trigger and reconciler it is.  The
\* state is of its type, so that no attempt passes the limit.
ChildFence ==
    /\ HandoffTypeOK
    /\ AttemptsLeft
    /\ \A w \in Workers : ChildAttempt(w) =>
         worker[w].attempt \in 1..Current(w).attemptCount
    /\ \A v, w \in Workers :
         v # w /\ ChildAttempt(v) /\ ChildAttempt(w)
               /\ worker[v].execution = worker[w].execution
           => worker[v].attempt # worker[w].attempt
    /\ \A w \in Workers :
         ChildAttempt(w) /\ worker[w].attempt = Current(w).attemptCount =>
           \/ Current(w).state \in {"child_dispatching", "completed"}
           \/ Current(w).state = "dead_letter"
                /\ Current(w).attemptCount = MaxAttempts

\* A handoff is completed exactly when a result receipt is stored; all its
\* receipts, under whatever provider event they came, name one completion
\* time; and only a dispatched execution with a started child has one.
ResultsAgree ==
    \A e \in Executions :
      /\ handoff[e].state = "completed" <=>
           \E p \in ProviderEvents : receipts[e][p] # "none"
      /\ \A p \in ProviderEvents :
           receipts[e][p] \in {"none", handoff[e].completedAt}
      /\ handoff[e].state = "completed" =>
           child[e] /\ execution[e] = "dispatched"

HandoffPhase(e) ==
    CASE handoff[e].state = "child_dispatching" -> "held"
      [] handoff[e].state \in {"child_dispatched", "completed"} -> "accepted"
      [] handoff[e].state = "dead_letter" -> "abandoned"
      [] OTHER -> "open"

ChildLedger(e) ==
    INSTANCE DispatchLedger
      WITH phase <- HandoffPhase(e), attempt <- handoff[e].attemptCount

\* Every handoff is a lease-guarded dispatch ledger of child dispatches: the
\* conjunction of ChildLedger(e)!LedgerSpec over the executions, with the
\* quantifier inside the box.  Within a phase its states keep to the table of
\* assertPublicLiteProviderHandoffTransition: no acceptance, child dispatch,
\* completion or dead letter is ever taken back.
HandoffsImplementLedger ==
    /\ \A e \in Executions : ChildLedger(e)!LedgerInit
    /\ [][\A e \in Executions : [ChildLedger(e)!LedgerNext]_(
             ChildLedger(e)!ledger)]_handoffVars
    /\ [][\A e \in Executions : handoff[e].state # "absent" =>
             Follows(handoffTransitions, handoff[e].state, handoff'[e].state)
         ]_handoffVars

Unsettled(e) == handoff[e].state \in HandoffDueStates

\* An accepted handoff is dispatched, completed or dead-lettered in the end,
\* even when the trigger never runs or hangs inside an attempt, and although
\* workers are cut off: the reconciler alone sees to it.
HandoffsSettle == \A e \in Executions : Unsettled(e) ~> ~Unsettled(e)
=============================================================================
