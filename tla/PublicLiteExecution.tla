------------------------- MODULE PublicLiteExecution -------------------------
(***************************************************************************)
(* Dispatch of one Public Lite run to the n8n gateway.                     *)
(*                                                                         *)
(* createPublicLiteRun has stored the run and its channels; the creation   *)
(* of the run document is an event that the platform delivers at least     *)
(* once, to concurrent invocations of dispatchPublicLiteRiskScan.  An      *)
(* invocation prepares the execution document, queues the run in two       *)
(* transactions, claims the dispatch lease, calls the gateway and records  *)
(* the answer.  Every action below is one Firestore transaction, or one    *)
(* answer of the gateway; between two of them anything may happen.         *)
(*                                                                         *)
(* The lease owner is the id of the event, which every delivery of it      *)
(* shares: comparing owners never tells two invocations apart, and the     *)
(* owner is not part of the state.                                         *)
(***************************************************************************)
EXTENDS Naturals, FiniteSets, RiskScanLifecycle

CONSTANTS
    Channels,       \* channelCodes
    Invocations,    \* invocations that can run at the same time
    MaxAttempts,    \* PUBLIC_LITE_DISPATCH_MAX_ATTEMPTS
    MaxCrashes,     \* bound: how often an invocation is cut off
    Duplicates      \* whether an acknowledged event may be delivered again

ASSUME ExecutionAssumption ==
    /\ Channels # {}
    /\ MaxAttempts \in Nat \ {0}
    /\ MaxCrashes \in Nat
    /\ Duplicates \in BOOLEAN

VARIABLES
    run,        \* status of the run document
    channel,    \* channel documents: status and attemptCount
    exec,       \* execution document; status "absent" before it is created
    event,      \* the platform's obligation to deliver the creation event
    inv,        \* local state of each invocation
    crashes     \* invocations cut off so far

execVars == <<run, channel, exec, event, inv, crashes>>

\* What a dispatch to the gateway can end in.
Answers ==
    {"receipt",            \* 202 with a receipt of this execution
     "malformedReceipt",   \* 202 with JSON that is not a receipt
     "refused",            \* other 2xx/4xx, invalid JSON, foreign receipt, ...
     "unavailable"}        \* timeout, network error, 408, 425, 429, 5xx

\* A malformed receipt is a TypeError of normalizeDispatchReceipt; the
\* dispatcher rewraps it as dispatch_network_error, which is retryable.
RetryableAnswers == {"malformedReceipt", "unavailable"}

Leases == {"none", "live", "expired"}

Pcs == {"idle", "prepare", "validate", "queue", "claim", "dispatch", "mark"}

ChannelDocuments ==
    [Channels -> [status : ChannelStatuses, attemptCount : 0..MaxAttempts]]

ExecutionDocuments ==
    [status       : ExecutionStatuses \cup {"absent"},
     attemptCount : 0..MaxAttempts,
     lease        : Leases,
     failureCode  : {"none", "dispatch_failed", "dispatch_attempts_exhausted"}]

InvocationStates ==
    [Invocations -> [pc      : Pcs,
                     attempt : 0..MaxAttempts,
                     answer  : Answers \cup {"none"}]]

ExecutionTypeOK ==
    /\ run \in RunStatuses
    /\ channel \in ChannelDocuments
    /\ exec \in ExecutionDocuments
    /\ event \in {"pending", "acked"}
    /\ inv \in InvocationStates
    /\ crashes \in 0..MaxCrashes

Idle == [pc |-> "idle", attempt |-> 0, answer |-> "none"]

ExecutionInit ==
    /\ run = "created"
    /\ channel = [c \in Channels |-> [status |-> "queued", attemptCount |-> 0]]
    /\ exec = [status |-> "absent", attemptCount |-> 0, lease |-> "none",
               failureCode |-> "none"]
    /\ event = "pending"
    /\ inv = [i \in Invocations |-> Idle]
    /\ crashes = 0

-----------------------------------------------------------------------------
(* Steps of an invocation that only move its own control.                  *)

At(i, pc) == inv[i].pc = pc
Goto(i, pc) == inv' = [inv EXCEPT ![i].pc = pc]

\* The handler returned: the platform has the acknowledgement.
ReturnNormally(i) == inv' = [inv EXCEPT ![i] = Idle] /\ event' = "acked"

\* The handler threw: the event stays to be delivered again.
Throw(i) == inv' = [inv EXCEPT ![i] = Idle] /\ UNCHANGED event

AllChannels(status) == \A c \in Channels : channel[c].status = status

SetChannels(status) ==
    channel' = [c \in Channels |-> [channel[c] EXCEPT !.status = status]]

-----------------------------------------------------------------------------
(* The transactions.                                                       *)

\* At-least-once: a delivery may repeat one that is running or was answered.
Deliver(i) ==
    /\ At(i, "idle")
    /\ event = "pending" \/ Duplicates
    /\ Goto(i, "prepare")
    /\ UNCHANGED <<run, channel, exec, event, crashes>>

ReadyStatuses ==
    {"queued", "acquiring", "failedRetryable", "failedTerminal",
     "completed", "completedWithLimits"}

\* By BundleConsistent the channels are always ready, and an execution is only
\* absent while the run is created: prepareExecution never rejects a delivery.
ChannelsReady == \A c \in Channels : channel[c].status \in ReadyStatuses

PrepareCreates(i) ==
    /\ At(i, "prepare")
    /\ ChannelsReady
    /\ exec.status = "absent"
    /\ run = "created"
    /\ exec' = [exec EXCEPT !.status = "prepared"]
    /\ Goto(i, "validate")
    /\ UNCHANGED <<run, channel, event, crashes>>

PrepareReplays(i) ==
    /\ At(i, "prepare")
    /\ ChannelsReady
    /\ exec.status # "absent"
    /\ Goto(i, "validate")
    /\ UNCHANGED <<run, channel, exec, event, crashes>>

\* Mutant of QueueValidates: the run is queued without being validated.
QueueValidatesAtOnce(i) ==
    /\ At(i, "validate")
    /\ run \in {"created", "validatingTarget", "queued", "failedRetryable"}
    /\ run' = IF run = "created" THEN "queued" ELSE run
    /\ Goto(i, "queue")
    /\ UNCHANGED <<channel, exec, event, crashes>>

\* First transaction of queueExecution.
QueueValidates(i) ==
    /\ At(i, "validate")
    /\ run \in {"created", "validatingTarget", "queued", "failedRetryable"}
    /\ run' = IF run = "created" THEN "validatingTarget" ELSE run
    /\ Goto(i, "queue")
    /\ UNCHANGED <<channel, exec, event, crashes>>

QueueRefuses(i) ==
    /\ At(i, "validate")
    /\ run \notin {"created", "validatingTarget", "queued", "failedRetryable"}
    /\ Throw(i)
    /\ UNCHANGED <<run, channel, exec, crashes>>

\* The channels of a retried run; any other status is a conflict.
RetryChannelsConsistent ==
    \A c \in Channels : channel[c].status \in {"failedRetryable", "queued"}

\* Mutant of QueueCommits: the second transaction trusts the first one's check.
QueueCommitsUnchecked(i) ==
    /\ At(i, "queue")
    /\ run' = "queued"
    /\ IF run = "failedRetryable" THEN SetChannels("queued") ELSE UNCHANGED channel
    /\ Goto(i, "claim")
    /\ UNCHANGED <<exec, event, crashes>>

\* Second transaction of queueExecution.
QueueCommits(i) ==
    /\ At(i, "queue")
    /\ \/ run \in {"queued", "validatingTarget"} /\ UNCHANGED channel
       \/ /\ run = "failedRetryable"
          /\ RetryChannelsConsistent
          /\ SetChannels("queued")
    /\ run' = "queued"
    /\ Goto(i, "claim")
    /\ UNCHANGED <<exec, event, crashes>>

QueueConflicts(i) ==
    /\ At(i, "queue")
    /\ \/ run \notin {"queued", "validatingTarget", "failedRetryable"}
       \/ run = "failedRetryable" /\ ~RetryChannelsConsistent
    /\ Throw(i)
    /\ UNCHANGED <<run, channel, exec, crashes>>

ExecutionSettled ==
    exec.status \in {"dispatched", "completed", "terminalFailure"}

\* already_dispatched and terminal, whatever the run says.
ClaimFindsSettled(i) ==
    /\ At(i, "claim")
    /\ ExecutionSettled
    /\ ReturnNormally(i)
    /\ UNCHANGED <<run, channel, exec, crashes>>

ClaimRequiresQueued(i) ==
    /\ At(i, "claim")
    /\ ~ExecutionSettled
    /\ run # "queued"
    /\ Throw(i)
    /\ UNCHANGED <<run, channel, exec, crashes>>

LeaseHeld == exec.status = "dispatching" /\ exec.lease = "live"

ClaimFindsLease(i) ==
    /\ At(i, "claim")
    /\ ~ExecutionSettled
    /\ run = "queued"
    /\ LeaseHeld
    /\ ReturnNormally(i)
    /\ UNCHANGED <<run, channel, exec, crashes>>

Claimable(i) ==
    /\ At(i, "claim")
    /\ ~ExecutionSettled
    /\ run = "queued"
    /\ ~LeaseHeld

ClaimExhausts(i) ==
    /\ Claimable(i)
    /\ exec.attemptCount + 1 > MaxAttempts
    /\ exec' = [exec EXCEPT !.status = "terminalFailure", !.lease = "none",
                            !.failureCode = "dispatch_attempts_exhausted"]
    /\ run' = "failedTerminal"
    /\ channel' = [c \in Channels |->
                     IF channel[c].status = "queued"
                     THEN [channel[c] EXCEPT !.status = "failedTerminal"]
                     ELSE channel[c]]
    /\ ReturnNormally(i)
    /\ UNCHANGED crashes

ClaimDispatch(i) ==
    /\ Claimable(i)
    /\ exec.attemptCount + 1 <= MaxAttempts
    /\ exec' = [exec EXCEPT !.status = "dispatching", !.lease = "live",
                            !.attemptCount = @ + 1]
    /\ inv' = [inv EXCEPT ![i].pc = "dispatch",
                          ![i].attempt = exec.attemptCount + 1]
    /\ UNCHANGED <<run, channel, event, crashes>>

\* The gateway answers, or the 45 second timer of the dispatcher fires.
GatewayAnswers(i, answer) ==
    /\ At(i, "dispatch")
    /\ inv' = [inv EXCEPT ![i].pc = "mark", ![i].answer = answer]
    /\ UNCHANGED <<run, channel, exec, event, crashes>>

\* Mutant of LeaseMatches: the owner, which every delivery shares, is trusted.
LeaseMatchesOwnerOnly(i) == exec.status = "dispatching"

\* assertLeaseMatch; the attempt number is what fences a stale invocation.
LeaseMatches(i) ==
    /\ exec.status = "dispatching"
    /\ exec.attemptCount = inv[i].attempt

BundleQueued == run = "queued" /\ AllChannels("queued")

Marks(i, answers) == At(i, "mark") /\ inv[i].answer \in answers

MarkDispatchSucceeded(i) ==
    /\ Marks(i, {"receipt"})
    /\ exec.status # "dispatched"
    /\ LeaseMatches(i)
    /\ BundleQueued
    /\ exec' = [exec EXCEPT !.status = "dispatched", !.lease = "none"]
    /\ run' = "acquiring"
    /\ channel' = [c \in Channels |-> [status |-> "acquiring",
                                       attemptCount |-> inv[i].attempt]]
    /\ ReturnNormally(i)
    /\ UNCHANGED crashes

\* The execution is dispatched already: the same receipt is a replay, a
\* receipt of another gateway execution is a conflict.
MarkReplaysSuccess(i) ==
    /\ Marks(i, {"receipt"})
    /\ exec.status = "dispatched"
    /\ ReturnNormally(i) \/ Throw(i)
    /\ UNCHANGED <<run, channel, exec, crashes>>

\* Mutant of Retryable: terminalByAttempts is forgotten.
RetryableByAnswer(i) == inv[i].answer \in RetryableAnswers

\* dispatchPreparedPublicLiteExecution's retryable: no retry after the last
\* attempt.
Retryable(i) ==
    inv[i].answer \in RetryableAnswers /\ inv[i].attempt < MaxAttempts

FailedStatus(i) ==
    IF Retryable(i) THEN "retryableFailure" ELSE "terminalFailure"

\* Mutant of ReportFailure: the retryable failure is logged, not thrown.
ReportFailureSwallowed(i) == ReturnNormally(i)

\* A retryable failure is thrown to the platform, a terminal one is not.
ReportFailure(i) == IF Retryable(i) THEN Throw(i) ELSE ReturnNormally(i)

\* Mutant of MarkDispatchFailed: the channels are left behind.
MarkDispatchFailedRunOnly(i) ==
    /\ Marks(i, Answers \ {"receipt"})
    /\ exec.status # FailedStatus(i)
    /\ LeaseMatches(i)
    /\ BundleQueued
    /\ exec' = [exec EXCEPT !.status = FailedStatus(i), !.lease = "none",
                            !.failureCode = "dispatch_failed"]
    /\ run' = IF Retryable(i) THEN "failedRetryable" ELSE "failedTerminal"
    /\ ReportFailure(i)
    /\ UNCHANGED <<channel, crashes>>

MarkDispatchFailed(i) ==
    /\ Marks(i, Answers \ {"receipt"})
    /\ exec.status # FailedStatus(i)
    /\ LeaseMatches(i)
    /\ BundleQueued
    /\ exec' = [exec EXCEPT !.status = FailedStatus(i), !.lease = "none",
                            !.failureCode = "dispatch_failed"]
    /\ LET bundle == IF Retryable(i) THEN "failedRetryable"
                                     ELSE "failedTerminal"
       IN  run' = bundle /\ SetChannels(bundle)
    /\ ReportFailure(i)
    /\ UNCHANGED crashes

\* The status is compared before the lease: any failure of the same kind is
\* taken for a replay of this one.
MarkReplaysFailure(i) ==
    /\ Marks(i, Answers \ {"receipt"})
    /\ exec.status = FailedStatus(i)
    /\ ReportFailure(i)
    /\ UNCHANGED <<run, channel, exec, crashes>>

MarkConflicts(i) ==
    /\ At(i, "mark")
    /\ exec.status # (IF inv[i].answer = "receipt" THEN "dispatched"
                                                   ELSE FailedStatus(i))
    /\ ~(LeaseMatches(i) /\ BundleQueued)
    /\ Throw(i)
    /\ UNCHANGED <<run, channel, exec, crashes>>

-----------------------------------------------------------------------------
(* The environment.                                                        *)

\* Five minutes after the claim, whether or not its invocation is alive.
LeaseExpires ==
    /\ exec.lease = "live"
    /\ exec' = [exec EXCEPT !.lease = "expired"]
    /\ UNCHANGED <<run, channel, event, inv, crashes>>

\* Instance killed, function timeout, transaction given up by Firestore.
Crash(i) ==
    /\ ~At(i, "idle")
    /\ crashes < MaxCrashes
    /\ crashes' = crashes + 1
    /\ Throw(i)
    /\ UNCHANGED <<run, channel, exec>>

-----------------------------------------------------------------------------

Prepare(i) == PrepareCreates(i) \/ PrepareReplays(i)

Queue(i) ==
    \/ QueueValidates(i) \/ QueueRefuses(i)
    \/ QueueCommits(i) \/ QueueConflicts(i)

Claim(i) ==
    \/ ClaimFindsSettled(i) \/ ClaimRequiresQueued(i) \/ ClaimFindsLease(i)
    \/ ClaimExhausts(i) \/ ClaimDispatch(i)

Mark(i) ==
    \/ MarkDispatchSucceeded(i) \/ MarkReplaysSuccess(i)
    \/ MarkDispatchFailed(i) \/ MarkReplaysFailure(i) \/ MarkConflicts(i)

Handler(i) ==
    \/ Prepare(i) \/ Queue(i) \/ Claim(i) \/ Mark(i)
    \/ \E answer \in Answers : GatewayAnswers(i, answer)

ExecutionNext ==
    \/ \E i \in Invocations : Deliver(i) \/ Handler(i) \/ Crash(i)
    \/ LeaseExpires

ExecutionSpec == ExecutionInit /\ [][ExecutionNext]_execVars

\* The platform redelivers an event that was not acknowledged, an invocation
\* that is not cut off goes on, and clocks advance.
Redeliver(i) == event = "pending" /\ Deliver(i)

FairExecutionSpec ==
    /\ ExecutionSpec
    /\ \A i \in Invocations : WF_execVars(Redeliver(i)) /\ WF_execVars(Handler(i))
    /\ WF_execVars(LeaseExpires)

-----------------------------------------------------------------------------
(* Properties.                                                             *)

\* The invocation is inside the attempt it claimed.
InAttempt(i) == inv[i].pc \in {"dispatch", "mark"}

\* The run and its channels tell the same story as the execution document,
\* although queueExecution writes them without it and in two transactions;
\* so "run bundle is not ready" and "retry channel state is inconsistent"
\* (public_lite_execution_firestore_port.js:346, 463, 527) never happen to
\* the holder of the lease, and the attempt a channel names is the one that
\* started it.
BundleConsistent ==
    /\ exec.status = "absent" => run = "created" /\ AllChannels("queued")
    /\ exec.status = "prepared" =>
         /\ run \in {"created", "validatingTarget", "queued"}
         /\ AllChannels("queued")
    /\ exec.status = "dispatching" => BundleQueued
    /\ exec.status = "retryableFailure" =>
         \/ BundleQueued
         \/ run = "failedRetryable" /\ AllChannels("failedRetryable")
    /\ exec.status = "terminalFailure" =>
         run = "failedTerminal" /\ AllChannels("failedTerminal")
    /\ exec.status = "dispatched" =>
         /\ run = "acquiring"
         /\ \A c \in Channels :
              channel[c] = [status |-> "acquiring",
                            attemptCount |-> exec.attemptCount]

\* An attempt has one invocation, and while the invocation of the newest
\* attempt waits for the gateway no older one decides its fate: only its own
\* mark, or exhaustion after the lease ran out, ends the attempt, though all
\* deliveries of the event present the same lease owner.
AttemptFence ==
    /\ \A i \in Invocations : inv[i].attempt <= exec.attemptCount
    /\ \A i, j \in Invocations :
         i # j /\ InAttempt(i) /\ InAttempt(j) => inv[i].attempt # inv[j].attempt
    /\ \A i \in Invocations :
         InAttempt(i) /\ inv[i].attempt = exec.attemptCount =>
           \/ exec.status = "dispatching"
           \/ exec.failureCode = "dispatch_attempts_exhausted"

\* No write of a status fails the transition table that every update asserts
\* (assertRunTransition, assertChannelTransition, assertExecutionTransition),
\* which would abort a transaction half way through a delivery.
TransitionsAllowed ==
    [][/\ Follows(runTransitions, run, run')
       /\ \A c \in Channels : Follows(channelTransitions,
                                      channel[c].status, channel'[c].status)
       /\ exec.status # "absent" =>
            Follows(executionTransitions, exec.status, exec'.status)]_execVars

\* Once the gateway's receipt or a final failure is stored, no late, repeated
\* or stale delivery changes the execution, the run or a channel.
SettledIsFinal ==
    [][ExecutionSettled => UNCHANGED <<exec, run, channel>>]_execVars

\* What makes the three invariants above inductive: how far an invocation can
\* be, when a lease exists, that nothing completes an execution, and that an
\* execution open for another attempt has one left.
ControlConsistent ==
    /\ \A i \in Invocations : ~At(i, "idle") /\ ~At(i, "prepare") =>
         exec.status # "absent"
    /\ exec.lease # "none" <=> exec.status = "dispatching"
    /\ exec.status # "completed"
    /\ exec.status \in {"absent", "prepared", "retryableFailure"} =>
         exec.attemptCount < MaxAttempts

ExecutionInductive ==
    ExecutionTypeOK /\ BundleConsistent /\ AttemptFence /\ ControlConsistent

LedgerPhase ==
    CASE exec.status = "dispatching"                 -> "held"
      [] exec.status \in {"dispatched", "completed"} -> "accepted"
      [] exec.status = "terminalFailure"             -> "abandoned"
      [] OTHER                                       -> "open"

Ledger == INSTANCE DispatchLedger
            WITH phase <- LedgerPhase, attempt <- exec.attemptCount

\* The execution document is a lease-guarded dispatch ledger: attempts are
\* counted one by one and never exceed the limit, a failed attempt leaves a
\* retry possible, and acceptance happens at most once.
ImplementsLedger == Ledger!LedgerSpec

\* The dispatch is claimed by an invocation that will not report any more.
LeaseOrphaned ==
    /\ exec.status = "dispatching"
    /\ \A i \in Invocations : InAttempt(i) => inv[i].attempt # exec.attemptCount

\* When deliveries come one at a time and stop at the acknowledgement, a run
\* is dispatched or failed for good, whatever the gateway answers; the one way
\* to stay in between is a cut-off inside an attempt whose redelivery met the
\* live lease and was acknowledged.
Settles ==
    <>[](ExecutionSettled \/ (LeaseOrphaned /\ event = "acked" /\ crashes > 0))

\* Stated by the unit test "expired lease can be reclaimed"
\* (risk_scan_public_lite_execution_firestore_unit.test.js:327): a dispatch
\* whose lease ran out is taken over.  Not kept by the code: README.md, under
\* "Disagreements".
ExpiredLeaseReclaimed ==
    (exec.status = "dispatching" /\ exec.lease = "expired")
      ~> (exec.lease # "expired")

\* Stated by the unit test "invalid provider receipt becomes terminal"
\* (risk_scan_public_lite_execution_unit.test.js:429) and by the service's
\* own catch, which sets retryable to false.  Not kept by the code:
\* README.md, under "Disagreements".
InvalidReceiptTerminal ==
    \A i \in Invocations :
      Marks(i, {"malformedReceipt"}) => FailedStatus(i) = "terminalFailure"
=============================================================================
